---- MODULE Spec2Model ----
(***************************************************************************)
(* Model of the configuration store of the ingress controller             *)
(* (internal/k8s/configuration.go): the store of Ingress, VirtualServer,  *)
(* VirtualServerRoute and TransportServer objects, the host arbiter, the  *)
(* listener arbiter, the change engine and the problem tracker.           *)
(*                                                                         *)
(* Objects are records.  A resource key "namespace/name" is the tuple     *)
(* <<namespace, name>>, a key with kind "Kind/namespace/name" the tuple   *)
(* <<Kind, namespace, name>>.  Go's byte-wise string order is modelled by *)
(* the position of a string in StringOrder.  Pointers to derived          *)
(* resources are modelled by their key with kind inside one rebuild and   *)
(* are dereferenced when the rebuild commits.                             *)
(***************************************************************************)
EXTENDS Integers, Sequences, FiniteSets, TLC

VARIABLES
    ingresses,            \* c.ingresses: key -> Ingress
    virtualServers,       \* c.virtualServers: key -> VirtualServer
    virtualServerRoutes,  \* c.virtualServerRoutes: key -> VirtualServerRoute
    transportServers,     \* c.transportServers: key -> TransportServer
    globalConfiguration,  \* c.globalConfiguration: GlobalConfiguration or Nil
    hosts,                \* c.hosts: host -> Resource
    listenerHosts,        \* c.listenerHosts: <<listener, host>> -> TransportServerConfiguration
    hostProblems,         \* c.hostProblems: key with kind -> ConfigurationProblem
    listenerProblems,     \* c.listenerProblems: key with kind -> ConfigurationProblem
    resources,            \* newResources of the latest rebuildHosts: key with kind -> Resource
    tsConfigs,            \* newTSConfigs of the latest rebuildListenerHosts: key -> TransportServerConfiguration
    isTLSPassthroughEnabled, \* construction-time flag
    isCertManagerEnabled,    \* construction-time flag
    lastCall,             \* the mutator call that produced the current state
    changes,              \* the []ResourceChange returned by lastCall
    problems,             \* the []ConfigurationProblem returned by lastCall
    winsInput,            \* inputs of the Wins law check (three ObjectMetas)
    scenario,             \* the set of objects the watch layer delivers in this run
    lock,                 \* c.lock: the writer that holds it and the number of readers
    mutator,              \* the goroutine that calls the mutators: its position and call
    reader,               \* a goroutine in GetResourcesWithFilter or a Find* query
    metricsReader         \* a goroutine in GetTransportServerMetrics

vars == <<ingresses, virtualServers, virtualServerRoutes, transportServers,
          globalConfiguration, hosts, listenerHosts, hostProblems, listenerProblems,
          resources, tsConfigs, isTLSPassthroughEnabled, isCertManagerEnabled, lastCall, changes, problems,
          winsInput, scenario, lock, mutator, reader, metricsReader>>

----------------------------------------------------------------------------
(* Generic helpers: nil, maps, string order, sorting.                      *)

Nil == [kind |-> "nil"]

EmptyMap == [x \in {} |-> Nil]

Put(m, k, v) == [x \in (DOMAIN m) \cup {k} |-> IF x = k THEN v ELSE m[x]]

Remove(m, k) == [x \in (DOMAIN m) \ {k} |-> m[x]]

Lookup(m, k) == IF k \in DOMAIN m THEN m[k] ELSE Nil

Range(s) == {s[i] : i \in DOMAIN s}

\* Every string that is compared by the program, in Go's byte-wise order.
StringOrder == <<"", "Ingress", "TransportServer", "VirtualServer", "VirtualServerRoute",
                 "a", "b", "c", "d", "h1", "h2", "h3",
                 "http-80", "http-81", "r", "tcp-90", "tcp-91", "tls-passthrough", "udp-90">>

StrIdx(s) == CHOOSE i \in DOMAIN StringOrder : StringOrder[i] = s

\* Lexicographic order on tuples of strings of the same length.
RECURSIVE TupleLess(_, _)
TupleLess(t1, t2) ==
    IF t1 = <<>> \/ t2 = <<>> THEN t1 = <<>> /\ t2 # <<>>
    ELSE IF Head(t1) = Head(t2) THEN TupleLess(Tail(t1), Tail(t2))
    ELSE StrIdx(Head(t1)) < StrIdx(Head(t2))

\* sort.Strings over the keys of a map: the keys in ascending order.
RECURSIVE SortKeys(_)
SortKeys(S) ==
    IF S = {} THEN <<>>
    ELSE LET m == CHOOSE x \in S : \A y \in S \ {x} : TupleLess(x, y)
         IN <<m>> \o SortKeys(S \ {m})

----------------------------------------------------------------------------
(* Keys.                                                                    *)

ingressKind == "Ingress"
virtualServerKind == "VirtualServer"
virtualServerRouteKind == "VirtualServerRoute"
transportServerKind == "TransportServer"

getResourceKey(meta) == <<meta.ns, meta.name>>

getResourceKeyWithKind(kind, meta) == <<kind, meta.ns, meta.name>>

GetKeyWithKind(r) == getResourceKeyWithKind(r.kind, r.obj)

----------------------------------------------------------------------------
(* Resource wrappers.                                                       *)

\* chooseObjectMetaWinner without the comparison of the UIDs.
chooseObjectMetaWinnerIgnoringUID(meta1, meta2) ==
    meta1.creationTimestamp <= meta2.creationTimestamp

\* chooseObjectMetaWinner with a tie going to the lesser UID.
chooseObjectMetaWinnerLesserUID(meta1, meta2) ==
    IF meta1.creationTimestamp = meta2.creationTimestamp
    THEN meta1.uid < meta2.uid
    ELSE meta1.creationTimestamp < meta2.creationTimestamp

\* The older creationTimestamp wins; on a tie the greater UID wins.
chooseObjectMetaWinner(meta1, meta2) ==
    IF meta1.creationTimestamp = meta2.creationTimestamp
    THEN meta1.uid > meta2.uid
    ELSE meta1.creationTimestamp < meta2.creationTimestamp

Wins(r1, r2) == chooseObjectMetaWinner(r1.obj, r2.obj)

AddWarning(r, warning) == [r EXCEPT !.warnings = Append(@, warning)]

compareObjectMetas(meta1, meta2) ==
    /\ meta1.ns = meta2.ns
    /\ meta1.name = meta2.name
    /\ meta1.generation = meta2.generation

compareObjectMetasWithAnnotations(meta1, meta2) ==
    compareObjectMetas(meta1, meta2) /\ meta1.annotations = meta2.annotations

NewRegularIngressConfiguration(ing) ==
    [kind |-> ingressKind, obj |-> ing, isMaster |-> FALSE, minions |-> <<>>,
     validHosts |-> EmptyMap, warnings |-> <<>>, childWarnings |-> EmptyMap]

NewMasterIngressConfiguration(ing, minions, childWarnings) ==
    [kind |-> ingressKind, obj |-> ing, isMaster |-> TRUE, minions |-> minions,
     validHosts |-> EmptyMap, warnings |-> <<>>, childWarnings |-> childWarnings]

NewMinionConfiguration(ing) == [ingress |-> ing, validPaths |-> EmptyMap]

NewVirtualServerConfiguration(vs, vsrs, warnings) ==
    [kind |-> virtualServerKind, obj |-> vs, routes |-> vsrs, warnings |-> warnings,
     httpPort |-> 0, httpsPort |-> 0, httpIPv4 |-> "", httpIPv6 |-> "",
     httpsIPv4 |-> "", httpsIPv6 |-> ""]

NewTransportServerConfiguration(ts) ==
    [kind |-> transportServerKind, obj |-> ts, listenerPort |-> 0,
     ipv4 |-> "", ipv6 |-> "", warnings |-> <<>>]

\* IngressConfiguration.IsEqual without the comparison of the minions.
IngressIsEqualIgnoringMinions(ic, resource) ==
    /\ resource.kind = ingressKind
    /\ compareObjectMetasWithAnnotations(ic.obj, resource.obj)
    /\ ic.validHosts = resource.validHosts
    /\ ic.isMaster = resource.isMaster

IngressIsEqual(ic, resource) ==
    /\ resource.kind = ingressKind
    /\ compareObjectMetasWithAnnotations(ic.obj, resource.obj)
    /\ ic.validHosts = resource.validHosts
    /\ ic.isMaster = resource.isMaster
    /\ Len(ic.minions) = Len(resource.minions)
    /\ \A i \in DOMAIN ic.minions :
          compareObjectMetasWithAnnotations(ic.minions[i].ingress, resource.minions[i].ingress)

VirtualServerIsEqual(vsc, resource) ==
    /\ resource.kind = virtualServerKind
    /\ compareObjectMetas(vsc.obj, resource.obj)
    /\ Len(vsc.routes) = Len(resource.routes)
    /\ \A i \in DOMAIN vsc.routes : compareObjectMetas(vsc.routes[i], resource.routes[i])

TransportServerIsEqual(tsc, resource) ==
    /\ resource.kind = transportServerKind
    /\ compareObjectMetas(tsc.obj, resource.obj)
    /\ tsc.listenerPort = resource.listenerPort

IsEqual(r, resource) ==
    CASE r.kind = ingressKind -> IngressIsEqual(r, resource)
      [] r.kind = virtualServerKind -> VirtualServerIsEqual(r, resource)
      [] r.kind = transportServerKind -> TransportServerIsEqual(r, resource)

\* A Go "for ... range seq" loop that threads the state acc through Op.
RECURSIVE FoldSeq(_, _, _)
FoldSeq(Op(_, _), acc, s) ==
    IF s = <<>> THEN acc ELSE FoldSeq(Op, Op(acc, Head(s)), Tail(s))

\* A Go "v := ..." statement: the value is computed once and In continues with it.
Bind(v, In(_)) == In(v)

----------------------------------------------------------------------------
(* Ingress helpers that live outside configuration.go.                     *)

mergeableIngressTypeAnnotation == "nginx.org/mergeable-ingress-type"

\* A minion declares its master through the annotation.
isMinion(ing) ==
    /\ mergeableIngressTypeAnnotation \in DOMAIN ing.annotations
    /\ ing.annotations[mergeableIngressTypeAnnotation] = "minion"

\* A master has a single host and zero paths.
isMaster(ing) == Len(ing.rules) = 1 /\ Len(ing.rules[1].paths) = 0

\* ValidateVirtualServerRouteForVirtualServer: the route must be for the host of the
\* VirtualServer and its subroutes must be under the path of the referencing route.
ValidateVirtualServerRouteForVirtualServer(vsr, host, path) ==
    IF vsr.host # host THEN "spec.host: Invalid value"
    ELSE IF vsr.path # path THEN "spec.subroutes: Invalid value"
    ELSE ""

----------------------------------------------------------------------------
(* Host arbiter.                                                           *)

HostTakenWarning(host) ==
    [msg |-> "host %s is taken by another resource", args |-> <<host>>]

PathTakenWarning(path) ==
    [msg |-> "path %s is taken by another resource", args |-> <<path>>]

isChallengeIngress(c, ing) ==
    IF ~c.isCertManagerEnabled THEN FALSE
    ELSE ing.challengeLabel = "true"

isChallengeIngressOwnerVs(c, host) ==
    \E key \in DOMAIN c.virtualServers : host = c.virtualServers[key].host

\* The conversion uint16(n) of an int32.
Uint16(n) == n % 65536

\* convertIngressToVSR that takes the path of the subroute for the service of the upstream.
convertIngressToVSRWithPathAsService(c, ing) ==
    LET rule == ing.rules[1] IN
    IF ~isChallengeIngressOwnerVs(c, rule.host) THEN Nil
    ELSE [kind |-> virtualServerRouteKind, ns |-> ing.ns, name |-> ing.name,
          generation |-> 0, host |-> rule.host,
          upstreams |-> << [name |-> "challenge",
                            service |-> rule.paths[1].path,
                            port |-> Uint16(rule.paths[1].port)] >>,
          subroutes |-> << [path |-> rule.paths[1].path,
                            action |-> [pass |-> "challenge"]] >>]

\* Returns the synthesised VirtualServerRoute, or Nil.
convertIngressToVSR(c, ing) ==
    LET rule == ing.rules[1] IN
    IF ~isChallengeIngressOwnerVs(c, rule.host) THEN Nil
    ELSE [kind |-> virtualServerRouteKind, ns |-> ing.ns, name |-> ing.name,
          generation |-> 0, host |-> rule.host,
          upstreams |-> << [name |-> "challenge",
                            service |-> rule.paths[1].service,
                            port |-> Uint16(rule.paths[1].port)] >>,
          subroutes |-> << [path |-> rule.paths[1].path,
                            action |-> [pass |-> "challenge"]] >>]

\* One iteration of the path loop of buildMinionConfigs for the minion at index i of
\* st.minionConfigs; st.paths maps a path to the index of the minion that holds it.
MinionClaimPath(st, i, p) ==
    LET ingress == st.minionConfigs[i].ingress IN
    IF p.path \notin DOMAIN st.paths
    THEN [st EXCEPT !.paths = Put(@, p.path, i),
                    !.minionConfigs[i].validPaths = Put(@, p.path, TRUE)]
    ELSE LET h == st.paths[p.path]
             holder == st.minionConfigs[h]
             warning == PathTakenWarning(p.path)
         IN IF ~chooseObjectMetaWinner(holder.ingress, ingress)
            THEN LET key == getResourceKey(holder.ingress)
                     s1 == [st EXCEPT !.paths = Put(@, p.path, i),
                                      !.minionConfigs[i].validPaths = Put(@, p.path, TRUE)]
                     s2 == [s1 EXCEPT !.minionConfigs[h].validPaths = Put(@, p.path, FALSE)]
                 IN [s2 EXCEPT !.childWarnings =
                         Put(@, key, Append(IF key \in DOMAIN @ THEN @[key] ELSE <<>>, warning))]
            ELSE LET key == getResourceKey(ingress)
                 IN [st EXCEPT !.childWarnings =
                         Put(@, key, Append(IF key \in DOMAIN @ THEN @[key] ELSE <<>>, warning))]

\* Returns [minionConfigs, childWarnings, paths].
buildMinionConfigs(c, masterHost) ==
    LET step(st, minionKey) ==
            LET ingress == c.ingresses[minionKey] IN
            IF ~isMinion(ingress) THEN st
            ELSE IF masterHost # ingress.rules[1].host THEN st
            ELSE LET i == Len(st.minionConfigs) + 1
                     s0 == [st EXCEPT !.minionConfigs = Append(@, NewMinionConfiguration(ingress))]
                 IN FoldSeq(LAMBDA a, p : MinionClaimPath(a, i, p), s0, ingress.rules[1].paths)
    IN FoldSeq(step,
               [minionConfigs |-> <<>>, childWarnings |-> EmptyMap, paths |-> EmptyMap],
               SortKeys(DOMAIN c.ingresses))

\* The key of the VirtualServerRoute a route of a VirtualServer refers to: a route
\* without namespace (a tuple of length one) is in the namespace of the VirtualServer.
vsrKeyOf(vs, route) == IF Len(route) = 2 THEN route ELSE <<vs.ns, route[1]>>

\* Returns [vsrs, warnings].
buildVirtualServerRoutes(c, vs) ==
    LET step(st, r) ==
            IF r.route = <<>> THEN st
            ELSE LET vsrKey == vsrKeyOf(vs, r.route) IN
                 IF vsrKey \notin DOMAIN c.virtualServerRoutes
                 THEN [st EXCEPT !.warnings = Append(@,
                          [msg |-> "VirtualServerRoute %s doesn't exist or invalid",
                           args |-> <<vsrKey>>])]
                 ELSE LET vsr == c.virtualServerRoutes[vsrKey]
                          err == ValidateVirtualServerRouteForVirtualServer(vsr, vs.host, r.path)
                      IN IF err # ""
                         THEN [st EXCEPT !.warnings = Append(@,
                                  [msg |-> "VirtualServerRoute %s is invalid: %v",
                                   args |-> <<vsrKey, err>>])]
                         ELSE [st EXCEPT !.vsrs = Append(@, vsr)]
    IN FoldSeq(step, [vsrs |-> <<>>, warnings |-> <<>>], vs.routes)

\* c.listenerMap as setGlobalConfigListenerMap builds it: the last listener of a name.
listenerMap(c) ==
    IF c.globalConfiguration = Nil THEN EmptyMap
    ELSE FoldSeq(LAMBDA m, l : Put(m, l.name, l), EmptyMap, c.globalConfiguration.listeners)

HTTPProtocol == "HTTP"
TLSPassthroughListenerName == "tls-passthrough"
TLSPassthroughListenerProtocol == "TLS_PASSTHROUGH"

\* buildListenersForVSConfiguration that does not look at the ssl of the listener.
buildListenersForVSConfigurationOfAnySsl(c, vsc) ==
    LET vs == vsc.obj
        lm == listenerMap(c)
        ok(listenerName) ==
            listenerName \in DOMAIN lm /\ lm[listenerName].protocol = HTTPProtocol
    IN IF vs.listener = Nil \/ c.globalConfiguration = Nil THEN vsc
       ELSE LET v1 == IF ok(vs.listener.http)
                      THEN [vsc EXCEPT !.httpPort = lm[vs.listener.http].port,
                                       !.httpIPv4 = lm[vs.listener.http].ipv4,
                                       !.httpIPv6 = lm[vs.listener.http].ipv6]
                      ELSE vsc
            IN IF ok(vs.listener.https)
               THEN [v1 EXCEPT !.httpsPort = lm[vs.listener.https].port,
                               !.httpsIPv4 = lm[vs.listener.https].ipv4,
                               !.httpsIPv6 = lm[vs.listener.https].ipv6]
               ELSE v1

buildListenersForVSConfiguration(c, vsc) ==
    LET vs == vsc.obj
        lm == listenerMap(c)
        ok(listenerName, isSSL) ==
            /\ listenerName \in DOMAIN lm
            /\ lm[listenerName].protocol = HTTPProtocol
            /\ lm[listenerName].ssl = isSSL
    IN IF vs.listener = Nil \/ c.globalConfiguration = Nil THEN vsc
       ELSE LET v1 == IF ok(vs.listener.http, FALSE)
                      THEN [vsc EXCEPT !.httpPort = lm[vs.listener.http].port,
                                       !.httpIPv4 = lm[vs.listener.http].ipv4,
                                       !.httpIPv6 = lm[vs.listener.http].ipv6]
                      ELSE vsc
            IN IF ok(vs.listener.https, TRUE)
               THEN [v1 EXCEPT !.httpsPort = lm[vs.listener.https].port,
                               !.httpsIPv4 = lm[vs.listener.https].ipv4,
                               !.httpsIPv6 = lm[vs.listener.https].ipv6]
               ELSE v1

\* ClaimHost without the warning for a holder that loses the host.
ClaimHostSilentTakeover(st, host, rkey) ==
    IF host \notin DOMAIN st.hosts
    THEN [st EXCEPT !.hosts = Put(@, host, rkey)]
    ELSE IF ~Wins(st.res[st.hosts[host]], st.res[rkey])
    THEN [st EXCEPT !.hosts = Put(@, host, rkey)]
    ELSE [st EXCEPT !.res[rkey] = AddWarning(@, HostTakenWarning(host))]

\* The claim of a host by the resource with key rkey: st.hosts maps a host to the key
\* of its holder, st.res a key with kind to the derived resource.
ClaimHost(st, host, rkey) ==
    IF host \notin DOMAIN st.hosts
    THEN [st EXCEPT !.hosts = Put(@, host, rkey)]
    ELSE LET hkey == st.hosts[host]
             warning == HostTakenWarning(host)
         IN IF ~Wins(st.res[hkey], st.res[rkey])
            THEN [st EXCEPT !.res[hkey] = AddWarning(@, warning),
                            !.hosts = Put(@, host, rkey)]
            ELSE [st EXCEPT !.res[rkey] = AddWarning(@, warning)]

\* Step 1 - build hosts from Ingress resources.
IngressPass(c, st0) ==
    LET claim(st, ing, resource) ==
            FoldSeq(LAMBDA a, rule : ClaimHost(a, rule.host, GetKeyWithKind(resource)),
                    [st EXCEPT !.res = Put(@, GetKeyWithKind(resource), resource)],
                    ing.rules)
        build(st, ing) ==
            IF isMaster(ing)
            THEN Bind(buildMinionConfigs(c, ing.rules[1].host), LAMBDA mc :
                     claim(st, ing,
                           NewMasterIngressConfiguration(ing, mc.minionConfigs, mc.childWarnings)))
            ELSE claim(st, ing, NewRegularIngressConfiguration(ing))
        step(st, key) ==
            LET ing == c.ingresses[key] IN
            IF isMinion(ing) THEN st
            ELSE IF isChallengeIngress(c, ing)
            THEN Bind(convertIngressToVSR(c, ing), LAMBDA vsr :
                     IF vsr # Nil THEN [st EXCEPT !.challengesVSR = Append(@, vsr)]
                     ELSE build(st, ing))
            ELSE build(st, ing)
    IN FoldSeq(step, st0, SortKeys(DOMAIN c.ingresses))

\* Step 2 - build hosts from VirtualServer resources.
VirtualServerPass(c, st0) ==
    LET claim(st, vs, resource) ==
            ClaimHost([st EXCEPT !.res = Put(@, GetKeyWithKind(resource), resource)],
                      vs.host, GetKeyWithKind(resource))
        withChallenges(st, vs, vsrs) ==
            FoldSeq(LAMBDA a, vsr : IF vs.host = vsr.host THEN Append(a, vsr) ELSE a,
                    vsrs, st.challengesVSR)
        step(st, key) ==
            LET vs == c.virtualServers[key] IN
            Bind(buildVirtualServerRoutes(c, vs), LAMBDA b :
                claim(st, vs,
                      buildListenersForVSConfiguration(c,
                          NewVirtualServerConfiguration(vs, withChallenges(st, vs, b.vsrs),
                                                        b.warnings))))
    IN FoldSeq(step, st0, SortKeys(DOMAIN c.virtualServers))

\* Whether step 3 skips the TransportServer.
SkipsTLSPassthroughPass(ts) ==
    /\ ts.listener.name # TLSPassthroughListenerName
    /\ ts.listener.protocol # TLSPassthroughListenerProtocol

\* Step 3 - build hosts from TransportServer resources if TLS Passthrough is enabled.
TransportServerPass(c, st0) ==
    LET step(st, key) ==
            LET ts == c.transportServers[key]
                resource == NewTransportServerConfiguration(ts)
                rkey == GetKeyWithKind(resource)
            IN IF SkipsTLSPassthroughPass(ts) THEN st
               ELSE ClaimHost([st EXCEPT !.res = Put(@, rkey, resource)], ts.host, rkey)
    IN IF c.isTLSPassthroughEnabled
       THEN FoldSeq(step, st0, SortKeys(DOMAIN c.transportServers))
       ELSE st0

\* Returns [hosts: host -> key with kind, res: key with kind -> Resource, challengesVSR].
buildHostsAndResources(c) ==
    TransportServerPass(c, VirtualServerPass(c, IngressPass(c,
        [hosts |-> EmptyMap, res |-> EmptyMap, challengesVSR |-> <<>>])))


----------------------------------------------------------------------------
(* Change engine.                                                          *)

Delete == "Delete"
AddOrUpdate == "AddOrUpdate"

\* The order of a Go "for ... range map" loop is unspecified: ord picks it, as a
\* rotation of the sorted keys that is then reversed or not (every order of up to
\* three keys).
RangeOrders(n) ==
    [reversed : IF n > 1 THEN BOOLEAN ELSE {FALSE},
     rotation : IF n > 2 THEN 0..(n - 1) ELSE {0}]

RECURSIVE Reverse(_)
Reverse(s) == IF s = <<>> THEN <<>> ELSE Append(Reverse(Tail(s)), Head(s))

Rotate(s, r) ==
    [i \in 1..Len(s) |-> s[((i - 1 + r) % Len(s)) + 1]]

RangeKeys(S, ord) ==
    LET rotated == Rotate(SortKeys(S), ord.rotation)
    IN IF ord.reversed THEN Reverse(rotated) ELSE rotated

\* A pointer to a derived resource: into the maps under construction (new) or to an
\* object of the previous state (val).
NewRef(key) == [new |-> TRUE, key |-> key, val |-> Nil]
OldRef(r) == [new |-> FALSE, key |-> GetKeyWithKind(r), val |-> r]

Deref(res, ref) == IF ref.new THEN res[ref.key] ELSE ref.val

\* updateActiveHostsForIngresses that takes a host for valid if an Ingress owns it.
updateActiveHostsForIngressesOfAnyIngress(st) ==
    [st EXCEPT !.res = [k \in DOMAIN st.res |->
        IF st.res[k].kind # ingressKind THEN st.res[k]
        ELSE [st.res[k] EXCEPT !.validHosts =
                [h \in {st.res[k].obj.rules[i].host : i \in DOMAIN st.res[k].obj.rules} |->
                    st.res[st.hosts[h]].kind = ingressKind]]]]

updateActiveHostsForIngresses(st) ==
    [st EXCEPT !.res = [k \in DOMAIN st.res |->
        IF st.res[k].kind # ingressKind THEN st.res[k]
        ELSE [st.res[k] EXCEPT !.validHosts =
                [h \in {st.res[k].obj.rules[i].host : i \in DOMAIN st.res[k].obj.rules} |->
                    st.hosts[h] = k]]]]

\* detectChangesInHosts that marks an update only if IsEqual answers false.
detectChangesInHostsByIsEqual(oldHosts, st) ==
    LET newKeys == SortKeys({<<h>> : h \in DOMAIN st.hosts})
        oldKeys == SortKeys({<<h>> : h \in DOMAIN oldHosts})
    IN [removed |-> FoldSeq(LAMBDA a, k : IF k[1] \notin DOMAIN st.hosts THEN Append(a, k[1]) ELSE a,
                            <<>>, oldKeys),
        updated |-> FoldSeq(LAMBDA a, k : IF k[1] \in DOMAIN oldHosts
                                             /\ ~IsEqual(oldHosts[k[1]], st.res[st.hosts[k[1]]])
                                          THEN Append(a, k[1]) ELSE a,
                            <<>>, newKeys),
        added |-> FoldSeq(LAMBDA a, k : IF k[1] \notin DOMAIN oldHosts THEN Append(a, k[1]) ELSE a,
                          <<>>, newKeys)]

\* Returns [removed, updated, added]: sequences of hosts.
detectChangesInHosts(oldHosts, st) ==
    LET newKeys == SortKeys({<<h>> : h \in DOMAIN st.hosts})
        oldKeys == SortKeys({<<h>> : h \in DOMAIN oldHosts})
        removed == FoldSeq(LAMBDA a, k : IF k[1] \notin DOMAIN st.hosts THEN Append(a, k[1]) ELSE a,
                           <<>>, oldKeys)
        added == FoldSeq(LAMBDA a, k : IF k[1] \notin DOMAIN oldHosts THEN Append(a, k[1]) ELSE a,
                         <<>>, newKeys)
        upd(a, k) ==
            LET h == k[1] IN
            IF h \notin DOMAIN oldHosts THEN a
            ELSE LET oldR == oldHosts[h]
                     newR == st.res[st.hosts[h]]
                 IN IF ~IsEqual(oldR, newR) THEN Append(a, h)
                    ELSE IF newR.kind # virtualServerKind \/ oldR.kind # virtualServerKind THEN a
                    ELSE LET a1 == IF newR.httpPort # oldR.httpPort \/ newR.httpsPort # oldR.httpsPort
                                   THEN Append(a, h) ELSE a
                             a2 == IF newR.httpIPv4 # oldR.httpIPv4 THEN Append(a1, h) ELSE a1
                         IN IF newR.httpIPv6 # oldR.httpIPv6 THEN Append(a2, h) ELSE a2
        updated == FoldSeq(upd, <<>>, newKeys)
    IN [removed |-> removed, updated |-> updated, added |-> added]

\* Shared by createResourceChangesForHosts and createResourceChangesForListeners: old maps
\* a key to the old owner, newKey a key to the key with kind of the new owner.
createResourceChanges(d, old, newKey) ==
    LET del1 == FoldSeq(LAMBDA a, h : Append(a, [op |-> Delete, ref |-> OldRef(old[h])]),
                        <<>>, d.removed)
        del2 == FoldSeq(LAMBDA a, h : IF GetKeyWithKind(old[h]) # newKey[h]
                                      THEN Append(a, [op |-> Delete, ref |-> OldRef(old[h])])
                                      ELSE a,
                        del1, d.updated)
        chg1 == FoldSeq(LAMBDA a, h : Append(a, [op |-> AddOrUpdate, ref |-> NewRef(newKey[h])]),
                        <<>>, d.updated)
        chg2 == FoldSeq(LAMBDA a, h : Append(a, [op |-> AddOrUpdate, ref |-> NewRef(newKey[h])]),
                        chg1, d.added)
    IN del2 \o chg2

createResourceChangesForHosts(d, oldHosts, st) == createResourceChanges(d, oldHosts, st.hosts)

\* The last change of the sequence for the resource with the key.
LastChangeFor(chs, key) ==
    chs[CHOOSE i \in DOMAIN chs :
            /\ chs[i].ref.key = key
            /\ \A j \in DOMAIN chs : chs[j].ref.key = key => j <= i]

squashResourceChanges(chs) ==
    LET step(a, c) ==
            IF c.ref.key \in a.done THEN a
            ELSE LET squashedChanged == LastChangeFor(chs, c.ref.key) IN
                 IF squashedChanged.op = Delete
                 THEN [a EXCEPT !.deletes = Append(@, squashedChanged), !.done = @ \cup {c.ref.key}]
                 ELSE [a EXCEPT !.updates = Append(@, squashedChanged), !.done = @ \cup {c.ref.key}]
        r == FoldSeq(step, [deletes |-> <<>>, updates |-> <<>>, done |-> {}], chs)
    IN r.deletes \o r.updates

\* "changes always refer to the latest version": a change whose key is a key of the map
\* of the new resources is pointed at the new resource.
RefreshChanges(chs, newKeys) ==
    [i \in DOMAIN chs |-> IF chs[i].ref.key \in newKeys
                          THEN [chs[i] EXCEPT !.ref = NewRef(chs[i].ref.key)]
                          ELSE chs[i]]

\* The changes as returned: every pointer dereferenced.
DerefChanges(chs, res) ==
    [i \in DOMAIN chs |-> [op |-> chs[i].op, resource |-> Deref(res, chs[i].ref), error |-> ""]]

----------------------------------------------------------------------------
(* Problem tracker.                                                        *)

EventReasonRejected == "Rejected"
EventReasonNoIngressMasterFound == "NoIngressMasterFound"
EventReasonNoVirtualServerFound == "NoVirtualServerFound"
EventReasonIgnored == "Ignored"

Problem(object, isError, reason, message) ==
    [object |-> object, isError |-> isError, reason |-> reason, message |-> message]

\* compareConfigurationProblems that compares the reasons alone.
compareConfigurationProblemsByReason(problem1, problem2) ==
    problem1.reason = problem2.reason

compareConfigurationProblems(problem1, problem2) ==
    /\ problem1.isError = problem2.isError
    /\ problem1.reason = problem2.reason
    /\ problem1.message = problem2.message

\* detectChangesInProblems without the comparison with the old problems.
detectChangesInProblemsWithoutDiff(newProblems, oldProblems) ==
    FoldSeq(LAMBDA a, key : Append(a, newProblems[key]), <<>>, SortKeys(DOMAIN newProblems))

detectChangesInProblems(newProblems, oldProblems) ==
    FoldSeq(LAMBDA a, key :
                IF key \notin DOMAIN oldProblems THEN Append(a, newProblems[key])
                ELSE IF ~compareConfigurationProblems(newProblems[key], oldProblems[key])
                THEN Append(a, newProblems[key])
                ELSE a,
            <<>>, SortKeys(DOMAIN newProblems))

\* addProblemsForResourcesWithoutActiveHost that asks of an Ingress that every host of
\* its rules is valid.
addProblemsForResourcesWithoutAllHosts(st, probs) ==
    LET bad(k) ==
            LET r == st.res[k] IN
            IF r.kind = ingressKind
            THEN \E h \in DOMAIN r.validHosts : ~r.validHosts[h]
            ELSE st.hosts[r.obj.host] # k
        msg(k) == IF st.res[k].kind = ingressKind
                  THEN [msg |-> "All hosts are taken by other resources", args |-> <<>>]
                  ELSE [msg |-> "Host is taken by another resource", args |-> <<>>]
        S == {k \in DOMAIN st.res : bad(k)}
    IN [k \in (DOMAIN probs) \cup S |->
           IF k \in S THEN Problem(st.res[k].obj, FALSE, EventReasonRejected, msg(k))
           ELSE probs[k]]

\* st is the result of the rebuild: st.hosts is the new c.hosts.
addProblemsForResourcesWithoutActiveHost(st, probs) ==
    LET bad(k) ==
            LET r == st.res[k] IN
            IF r.kind = ingressKind
            THEN ~\E h \in DOMAIN r.validHosts : r.validHosts[h]
            ELSE st.hosts[r.obj.host] # k
        msg(k) == IF st.res[k].kind = ingressKind
                  THEN [msg |-> "All hosts are taken by other resources", args |-> <<>>]
                  ELSE [msg |-> "Host is taken by another resource", args |-> <<>>]
        S == {k \in DOMAIN st.res : bad(k)}
    IN [k \in (DOMAIN probs) \cup S |->
           IF k \in S THEN Problem(st.res[k].obj, FALSE, EventReasonRejected, msg(k))
           ELSE probs[k]]

\* addProblemsForOrphanMinions that asks only whether the host has an owner.
addProblemsForOrphanMinionsOfFreeHosts(c, st, probs) ==
    LET S == {key \in DOMAIN c.ingresses :
                 isMinion(c.ingresses[key]) /\ c.ingresses[key].rules[1].host \notin DOMAIN st.hosts}
        kwk(key) == getResourceKeyWithKind(ingressKind, c.ingresses[key])
    IN FoldSeq(LAMBDA a, key :
                  IF key \in S
                  THEN Put(a, kwk(key),
                           Problem(c.ingresses[key], FALSE, EventReasonNoIngressMasterFound,
                                   [msg |-> "Ingress master is invalid or doesn't exist", args |-> <<>>]))
                  ELSE a,
               probs, SortKeys(DOMAIN c.ingresses))

addProblemsForOrphanMinions(c, st, probs) ==
    LET orphan(key) ==
            LET ing == c.ingresses[key]
                h == ing.rules[1].host
            IN /\ isMinion(ing)
               /\ \/ h \notin DOMAIN st.hosts
                  \/ st.res[st.hosts[h]].kind # ingressKind
                  \/ ~st.res[st.hosts[h]].isMaster
        S == {key \in DOMAIN c.ingresses : orphan(key)}
        kwk(key) == getResourceKeyWithKind(ingressKind, c.ingresses[key])
    IN FoldSeq(LAMBDA a, key :
                  IF key \in S
                  THEN Put(a, kwk(key),
                           Problem(c.ingresses[key], FALSE, EventReasonNoIngressMasterFound,
                                   [msg |-> "Ingress master is invalid or doesn't exist", args |-> <<>>]))
                  ELSE a,
               probs, SortKeys(DOMAIN c.ingresses))

addProblemsForOrphanOrIgnoredVsrs(c, st, probs) ==
    LET step(a, key) ==
            LET vsr == c.virtualServerRoutes[key]
                k == getResourceKeyWithKind(virtualServerRouteKind, vsr)
                exists == vsr.host \in DOMAIN st.hosts
                r == st.res[st.hosts[vsr.host]]
            IN IF ~exists \/ r.kind # virtualServerKind
               THEN Put(a, k, Problem(vsr, FALSE, EventReasonNoVirtualServerFound,
                        [msg |-> "VirtualServer is invalid or doesn't exist", args |-> <<>>]))
               ELSE IF ~\E i \in DOMAIN r.routes :
                          vsr.ns = r.routes[i].ns /\ vsr.name = r.routes[i].name
               THEN Put(a, k, Problem(vsr, FALSE, EventReasonIgnored,
                        [msg |-> "VirtualServer %s ignores VirtualServerRoute",
                         args |-> <<getResourceKey(r.obj)>>]))
               ELSE a
    IN FoldSeq(step, probs, SortKeys(DOMAIN c.virtualServerRoutes))

isListenerInCorrectBlock(c, listenerName, expectedSsl) ==
    LET lm == listenerMap(c) IN
    ~(listenerName \in DOMAIN lm /\ lm[listenerName].ssl # expectedSsl)

\* The warning for the VirtualServer, or Nil (the messages without their backquotes).
MissConfiguredListenerWarning(c, vs) ==
    LET lm == listenerMap(c) IN
    IF vs.listener = Nil THEN Nil
    ELSE IF c.globalConfiguration = Nil
    THEN [msg |-> "Listeners defined, but no GlobalConfiguration is deployed", args |-> <<>>]
    ELSE IF ~isListenerInCorrectBlock(c, vs.listener.http, FALSE)
    THEN [msg |-> "Listener %s can't be use in listener.http context as SSL is enabled for that listener.",
          args |-> <<vs.listener.http>>]
    ELSE IF ~isListenerInCorrectBlock(c, vs.listener.https, TRUE)
    THEN [msg |-> "Listener %s can't be use in listener.https context as SSL is not enabled for that listener.",
          args |-> <<vs.listener.https>>]
    ELSE IF vs.listener.http # "" /\ vs.listener.http \notin DOMAIN lm
    THEN [msg |-> "Listener %s is not defined in GlobalConfiguration", args |-> <<vs.listener.http>>]
    ELSE IF vs.listener.https # "" /\ vs.listener.https \notin DOMAIN lm
    THEN [msg |-> "Listener %s is not defined in GlobalConfiguration", args |-> <<vs.listener.https>>]
    ELSE Nil

\* addWarningsForVirtualServersWithMissConfiguredListeners that warns the
\* VirtualServerConfiguration itself.
addWarningsToVirtualServersWithMissConfiguredListeners(c, st, ord) ==
    LET step(a, k) ==
            LET r == a.res[k]
                w == MissConfiguredListenerWarning(c, r.obj)
            IN IF r.kind # virtualServerKind THEN a
               ELSE IF w = Nil THEN a
               ELSE [a EXCEPT !.res[k] = AddWarning(@, w)]
    IN FoldSeq(step, st, RangeKeys(DOMAIN st.res, ord))

\* The warning goes to the resource that holds the host of the VirtualServer.
addWarningsForVirtualServersWithMissConfiguredListeners(c, st, ord) ==
    LET step(a, k) ==
            LET r == a.res[k]
                w == MissConfiguredListenerWarning(c, r.obj)
            IN IF r.kind # virtualServerKind THEN a
               ELSE IF w = Nil THEN a
               ELSE [a EXCEPT !.res[a.hosts[r.obj.host]] = AddWarning(@, w)]
    IN FoldSeq(step, st, RangeKeys(DOMAIN st.res, ord))

\* rebuildHosts: returns the new hosts and hostProblems and the returned changes and
\* problems.  c holds the store after the mutation and the hosts and hostProblems of
\* before.
rebuildHosts(c, ord) ==
    Bind(updateActiveHostsForIngresses(buildHostsAndResources(c)), LAMBDA st1 :
    Bind(detectChangesInHosts(c.hosts, st1), LAMBDA d :
    Bind(RefreshChanges(squashResourceChanges(createResourceChangesForHosts(d, c.hosts, st1)),
                        DOMAIN st1.res), LAMBDA chs :
    Bind(addProblemsForResourcesWithoutActiveHost(st1, EmptyMap), LAMBDA p1 :
    Bind(addProblemsForOrphanMinions(c, st1, p1), LAMBDA p2 :
    Bind(addProblemsForOrphanOrIgnoredVsrs(c, st1, p2), LAMBDA newProblems :
    Bind(addWarningsForVirtualServersWithMissConfiguredListeners(c, st1, ord), LAMBDA st2 :
        [hosts |-> [h \in DOMAIN st2.hosts |-> st2.res[st2.hosts[h]]],
         resources |-> st2.res,
         hostProblems |-> newProblems,
         changes |-> DerefChanges(chs, st2.res),
         problems |-> detectChangesInProblems(newProblems, c.hostProblems)])))))))


----------------------------------------------------------------------------
(* Listener arbiter.                                                       *)

ListenerTakenWarning(listenerName, host) ==
    [msg |-> "listener %s and host %s are taken by another resource",
     args |-> <<listenerName, host>>]

\* FindListener matching the name of the listener only.
FindListenerByName(c, ts) ==
    LET ls == c.globalConfiguration.listeners
        S == {i \in DOMAIN ls : ts.listener.name = ls[i].name}
    IN IF S = {} THEN Nil ELSE ls[CHOOSE i \in S : \A j \in S : i <= j]

\* The first listener of the global configuration with the name and the protocol of
\* the TransportServer, or Nil.
FindListener(c, ts) ==
    LET ls == c.globalConfiguration.listeners
        S == {i \in DOMAIN ls : ts.listener.name = ls[i].name /\ ts.listener.protocol = ls[i].protocol}
    IN IF S = {} THEN Nil ELSE ls[CHOOSE i \in S : \A j \in S : i <= j]

\* Returns [hosts: <<listener, host>> -> key, res: key -> TransportServerConfiguration];
\* both maps are keyed by the key of c.transportServers (namespace/name).
buildListenerHostsAndTSConfigurations(c, ord) ==
    LET step(st, key) ==
            LET ts == c.transportServers[key]
                tsc == NewTransportServerConfiguration(ts)
                s1 == [st EXCEPT !.res = Put(@, key, tsc)]
                listener == FindListener(c, ts)
                listenerKey == <<listener.name, ts.host>>
                s2 == [s1 EXCEPT !.res[key] = [@ EXCEPT !.listenerPort = listener.port,
                                                        !.ipv4 = listener.ipv4,
                                                        !.ipv6 = listener.ipv6]]
                warning == ListenerTakenWarning(listener.name, ts.host)
            IN IF ts.listener.protocol = TLSPassthroughListenerProtocol THEN st
               ELSE IF c.globalConfiguration = Nil THEN s1
               ELSE IF listener = Nil THEN s1
               ELSE IF listenerKey \notin DOMAIN s2.hosts
               THEN [s2 EXCEPT !.hosts = Put(@, listenerKey, key)]
               ELSE LET hkey == s2.hosts[listenerKey] IN
                    IF ~Wins(s2.res[hkey], s2.res[key])
                    THEN [s2 EXCEPT !.res[hkey] = AddWarning(@, warning),
                                    !.hosts = Put(@, listenerKey, key)]
                    ELSE [s2 EXCEPT !.res[key] = AddWarning(@, warning)]
    IN FoldSeq(step, [hosts |-> EmptyMap, res |-> EmptyMap],
               RangeKeys(DOMAIN c.transportServers, ord))

\* old and new: <<listener, host>> -> TransportServerConfiguration.
detectChangesInListenerHosts(old, new) ==
    LET oldKeys == SortKeys(DOMAIN old)
        newKeys == SortKeys(DOMAIN new)
    IN [removed |-> FoldSeq(LAMBDA a, k : IF k \notin DOMAIN new THEN Append(a, k) ELSE a,
                            <<>>, oldKeys),
        added |-> FoldSeq(LAMBDA a, k : IF k \notin DOMAIN old THEN Append(a, k) ELSE a,
                          <<>>, newKeys),
        updated |-> FoldSeq(LAMBDA a, k : IF k \in DOMAIN old /\ ~IsEqual(old[k], new[k])
                                          THEN Append(a, k) ELSE a,
                            <<>>, newKeys)]

createResourceChangesForListeners(d, old, new) ==
    createResourceChanges(d, old, [k \in DOMAIN new |-> GetKeyWithKind(new[k])])

\* newListenerHosts is the new c.listenerHosts, newTSConfigs the map of the new
\* TransportServerConfigurations.
addProblemsForTSConfigsWithoutActiveListener(newListenerHosts, newTSConfigs, probs) ==
    LET key(k) == <<newTSConfigs[k].obj.listener.name, newTSConfigs[k].obj.host>>
        hostDescription(k) == IF newTSConfigs[k].obj.host = "" THEN "empty host" ELSE newTSConfigs[k].obj.host
        missing == {k \in DOMAIN newTSConfigs : key(k) \notin DOMAIN newListenerHosts}
        taken == {k \in (DOMAIN newTSConfigs) \ missing : ~IsEqual(newTSConfigs[k], newListenerHosts[key(k)])}
        kwk == [k \in missing \cup taken |-> GetKeyWithKind(newTSConfigs[k])]
        p(k) == IF k \in missing
                THEN Problem(newTSConfigs[k].obj, FALSE, EventReasonRejected,
                             [msg |-> "Listener %s doesn't exist",
                              args |-> <<newTSConfigs[k].obj.listener.name>>])
                ELSE Problem(newTSConfigs[k].obj, FALSE, EventReasonRejected,
                             [msg |-> "Listener %s with host %s is taken by another resource",
                              args |-> <<newTSConfigs[k].obj.listener.name, hostDescription(k)>>])
    IN [x \in (DOMAIN probs) \cup {kwk[k] : k \in missing \cup taken} |->
           IF \E k \in missing \cup taken : kwk[k] = x
           THEN p(CHOOSE k \in missing \cup taken : kwk[k] = x)
           ELSE probs[x]]

\* rebuildListenerHosts: returns the new listenerHosts and listenerProblems and the
\* returned changes and problems.
rebuildListenerHosts(c, ord) ==
    Bind(buildListenerHostsAndTSConfigurations(c, ord), LAMBDA st :
    Bind([k \in DOMAIN st.hosts |-> st.res[st.hosts[k]]], LAMBDA newListenerHosts :
    Bind([x \in {GetKeyWithKind(st.res[k]) : k \in DOMAIN st.res} |-> st.res[<<x[2], x[3]>>]],
         LAMBDA byKeyWithKind :
    Bind(detectChangesInListenerHosts(c.listenerHosts, newListenerHosts), LAMBDA d :
    Bind(RefreshChanges(
             squashResourceChanges(
                 createResourceChangesForListeners(d, c.listenerHosts, newListenerHosts)),
             DOMAIN st.res), LAMBDA chs :
    Bind(addProblemsForTSConfigsWithoutActiveListener(newListenerHosts, st.res, EmptyMap),
         LAMBDA newProblems :
        [listenerHosts |-> newListenerHosts,
         tsConfigs |-> st.res,
         listenerProblems |-> newProblems,
         changes |-> DerefChanges(chs, byKeyWithKind),
         problems |-> detectChangesInProblems(newProblems, c.listenerProblems)]))))))


----------------------------------------------------------------------------
(* Store facade: the mutators as functions of the store c and their        *)
(* arguments.  An object carries the answers of the injected predicates:   *)
(* obj.class is hasCorrectIngressClass(obj) and obj.err the error of its   *)
(* validator ("" for none).  Each returns [c, changes, problems].          *)

\* The store as one value.
Store ==
    [ingresses |-> ingresses, virtualServers |-> virtualServers,
     virtualServerRoutes |-> virtualServerRoutes, transportServers |-> transportServers,
     globalConfiguration |-> globalConfiguration, hosts |-> hosts,
     listenerHosts |-> listenerHosts, hostProblems |-> hostProblems,
     listenerProblems |-> listenerProblems,
     resources |-> resources, tsConfigs |-> tsConfigs,
     isTLSPassthroughEnabled |-> isTLSPassthroughEnabled,
     isCertManagerEnabled |-> isCertManagerEnabled]

\* StoreObject without the class filter.
StoreObjectOfAnyClass(m, obj) ==
    IF obj.err # "" THEN Remove(m, getResourceKey(obj))
    ELSE Put(m, getResourceKey(obj), obj)

\* The class filter and the validation gate of the AddOrUpdate mutators.
StoreObject(m, obj) ==
    IF ~obj.class THEN Remove(m, getResourceKey(obj))
    ELSE IF obj.err # "" THEN Remove(m, getResourceKey(obj))
    ELSE Put(m, getResourceKey(obj), obj)

ValidationErrorOf(obj) == IF ~obj.class THEN "" ELSE obj.err

WithHosts(c, rh) ==
    [c EXCEPT !.hosts = rh.hosts, !.hostProblems = rh.hostProblems, !.resources = rh.resources]

WithListenerHosts(c, rl) ==
    [c EXCEPT !.listenerHosts = rl.listenerHosts, !.listenerProblems = rl.listenerProblems,
              !.tsConfigs = rl.tsConfigs]

\* AttachValidationError without the return after the error is attached to a change.
AttachValidationErrorAndProblem(chs, probs, keyWithKind, obj, validationError, message) ==
    LET S == {i \in DOMAIN chs : GetKeyWithKind(chs[i].resource) = keyWithKind} IN
    IF validationError = "" THEN [changes |-> chs, problems |-> probs]
    ELSE [changes |-> IF S # {}
                      THEN [chs EXCEPT ![CHOOSE i \in S : \A j \in S : i <= j].error = validationError]
                      ELSE chs,
          problems |-> Append(probs, Problem(obj, TRUE, EventReasonRejected, message))]

\* AttachValidationError that attaches the error to every change of the list.
AttachValidationErrorToAll(chs, probs, keyWithKind, obj, validationError, message) ==
    IF validationError = "" THEN [changes |-> chs, problems |-> probs]
    ELSE IF chs # <<>>
    THEN [changes |-> [i \in DOMAIN chs |-> [chs[i] EXCEPT !.error = validationError]],
          problems |-> probs]
    ELSE [changes |-> chs,
          problems |-> Append(probs, Problem(obj, TRUE, EventReasonRejected, message))]

\* The validation error goes to the first change of the resource, or else becomes a
\* problem.
AttachValidationError(chs, probs, keyWithKind, obj, validationError, message) ==
    LET S == {i \in DOMAIN chs : GetKeyWithKind(chs[i].resource) = keyWithKind} IN
    IF validationError = "" THEN [changes |-> chs, problems |-> probs]
    ELSE IF S # {}
    THEN [changes |-> [chs EXCEPT ![CHOOSE i \in S : \A j \in S : i <= j].error = validationError],
          problems |-> probs]
    ELSE [changes |-> chs,
          problems |-> Append(probs, Problem(obj, TRUE, EventReasonRejected, message))]

AddOrUpdateIngressCall(c, ing, ord) ==
    LET c1 == [c EXCEPT !.ingresses = StoreObject(@, ing)]
        validationError == ValidationErrorOf(ing)
    IN Bind(rebuildHosts(c1, ord), LAMBDA rh :
       Bind(AttachValidationError(rh.changes, rh.problems,
                getResourceKeyWithKind(ingressKind, ing), ing, validationError,
                [msg |-> "%s", args |-> <<validationError>>]), LAMBDA out :
           [c |-> WithHosts(c1, rh), changes |-> out.changes, problems |-> out.problems]))

\* DeleteIngress that leaves c.hosts as it was.
DeleteIngressCallKeepingHosts(c, key, ord) ==
    IF key \notin DOMAIN c.ingresses THEN [c |-> c, changes |-> <<>>, problems |-> <<>>]
    ELSE [c |-> [c EXCEPT !.ingresses = Remove(@, key)], changes |-> <<>>, problems |-> <<>>]

DeleteIngressCall(c, key, ord) ==
    IF key \notin DOMAIN c.ingresses THEN [c |-> c, changes |-> <<>>, problems |-> <<>>]
    ELSE LET c1 == [c EXCEPT !.ingresses = Remove(@, key)] IN
         Bind(rebuildHosts(c1, ord), LAMBDA rh :
             [c |-> WithHosts(c1, rh), changes |-> rh.changes, problems |-> rh.problems])

AddOrUpdateVirtualServerCall(c, vs, ord) ==
    LET c1 == [c EXCEPT !.virtualServers = StoreObject(@, vs)]
        validationError == ValidationErrorOf(vs)
    IN Bind(rebuildHosts(c1, ord), LAMBDA rh :
       Bind(AttachValidationError(rh.changes, rh.problems,
                getResourceKeyWithKind(virtualServerKind, vs), vs, validationError,
                [msg |-> "VirtualServer %s was rejected with error: %s",
                    args |-> <<getResourceKey(vs), validationError>>]), LAMBDA out :
           [c |-> WithHosts(c1, rh), changes |-> out.changes, problems |-> out.problems]))

DeleteVirtualServerCall(c, key, ord) ==
    IF key \notin DOMAIN c.virtualServers THEN [c |-> c, changes |-> <<>>, problems |-> <<>>]
    ELSE LET c1 == [c EXCEPT !.virtualServers = Remove(@, key)] IN
         Bind(rebuildHosts(c1, ord), LAMBDA rh :
             [c |-> WithHosts(c1, rh), changes |-> rh.changes, problems |-> rh.problems])

AddOrUpdateVirtualServerRouteCall(c, vsr, ord) ==
    LET c1 == [c EXCEPT !.virtualServerRoutes = StoreObject(@, vsr)]
        validationError == ValidationErrorOf(vsr)
    IN Bind(rebuildHosts(c1, ord), LAMBDA rh :
           [c |-> WithHosts(c1, rh),
            changes |-> rh.changes,
            problems |-> IF validationError # ""
                         THEN Append(rh.problems, Problem(vsr, TRUE, EventReasonRejected,
                                  [msg |-> "VirtualServerRoute %s was rejected with error: %s",
                                   args |-> <<getResourceKey(vsr), validationError>>]))
                         ELSE rh.problems])

DeleteVirtualServerRouteCall(c, key, ord) ==
    IF key \notin DOMAIN c.virtualServerRoutes THEN [c |-> c, changes |-> <<>>, problems |-> <<>>]
    ELSE LET c1 == [c EXCEPT !.virtualServerRoutes = Remove(@, key)] IN
         Bind(rebuildHosts(c1, ord), LAMBDA rh :
             [c |-> WithHosts(c1, rh), changes |-> rh.changes, problems |-> rh.problems])

\* rebuildListenerHosts, then rebuildHosts: the changes and problems concatenated.
RebuildHostsAfterListeners(c1, rl, ord) ==
    Bind(WithListenerHosts(c1, rl), LAMBDA c2 :
    Bind(rebuildHosts(c2, ord), LAMBDA rh :
        [c |-> WithHosts(c2, rh),
         changes |-> rl.changes \o rh.changes,
         problems |-> rl.problems \o rh.problems]))

RebuildBoth(c1, ord) ==
    Bind(rebuildListenerHosts(c1, ord), LAMBDA rl : RebuildHostsAfterListeners(c1, rl, ord))

\* rebuildListenerHosts, and rebuildHosts if TLS Passthrough is enabled.
RebuildForTransportServer(c1, ord) ==
    Bind(rebuildListenerHosts(c1, ord), LAMBDA rl :
        IF c1.isTLSPassthroughEnabled THEN RebuildHostsAfterListeners(c1, rl, ord)
        ELSE [c |-> WithListenerHosts(c1, rl), changes |-> rl.changes, problems |-> rl.problems])

\* AddOrUpdateGlobalConfiguration that keeps the stored global configuration if the
\* validator returns an error.
AddOrUpdateValidGlobalConfigurationCall(c, gc, ord) ==
    IF gc.err # "" THEN [c |-> c, changes |-> <<>>, problems |-> <<>>, err |-> gc.err]
    ELSE Bind(RebuildBoth([c EXCEPT !.globalConfiguration = gc], ord), LAMBDA r :
             [c |-> r.c, changes |-> r.changes, problems |-> r.problems, err |-> gc.err])

\* Returns [c, changes, problems, err]: err is the error of the validator.
AddOrUpdateGlobalConfigurationCall(c, gc, ord) ==
    Bind(RebuildBoth([c EXCEPT !.globalConfiguration = gc], ord), LAMBDA r :
        [c |-> r.c, changes |-> r.changes, problems |-> r.problems, err |-> gc.err])

DeleteGlobalConfigurationCall(c, ord) ==
    RebuildBoth([c EXCEPT !.globalConfiguration = Nil], ord)

AddOrUpdateTransportServerCall(c, ts, ord) ==
    LET c1 == [c EXCEPT !.transportServers = StoreObject(@, ts)]
        validationErr == ValidationErrorOf(ts)
    IN Bind(RebuildForTransportServer(c1, ord), LAMBDA r :
       Bind(AttachValidationError(r.changes, r.problems,
                getResourceKeyWithKind(transportServerKind, ts), ts, validationErr,
                [msg |-> "TransportServer %s was rejected with error: %s",
                 args |-> <<getResourceKey(ts), validationErr>>]), LAMBDA out :
           [c |-> r.c, changes |-> out.changes, problems |-> out.problems]))

\* DeleteTransportServer that finds the TransportServer by its name alone.
DeleteTransportServerCallByName(c, key, ord) ==
    LET S == {k \in DOMAIN c.transportServers : k[2] = key[2]} IN
    IF S = {} THEN [c |-> c, changes |-> <<>>, problems |-> <<>>]
    ELSE RebuildForTransportServer(
             [c EXCEPT !.transportServers = Remove(@, CHOOSE k \in S : TRUE)], ord)

DeleteTransportServerCall(c, key, ord) ==
    IF key \notin DOMAIN c.transportServers THEN [c |-> c, changes |-> <<>>, problems |-> <<>>]
    ELSE RebuildForTransportServer([c EXCEPT !.transportServers = Remove(@, key)], ord)


----------------------------------------------------------------------------
(* Public reads.  A resource reference checker is an injected predicate on   *)
(* objects: it is modelled by the set of the objects it answers true for.   *)

AllKinds == [Ingresses |-> TRUE, VirtualServers |-> TRUE, TransportServers |-> TRUE]

\* FilteredResources without the holders of listeners.
FilteredResourcesOfHosts(c, filter) ==
    LET wanted(r) ==
            CASE r.kind = ingressKind -> filter.Ingresses
              [] r.kind = virtualServerKind -> filter.VirtualServers
              [] r.kind = transportServerKind -> filter.TransportServers
        fromHosts == {h \in DOMAIN c.hosts : wanted(c.hosts[h])}
    IN [x \in {GetKeyWithKind(c.hosts[h]) : h \in fromHosts} |->
           c.hosts[CHOOSE h \in fromHosts : GetKeyWithKind(c.hosts[h]) = x]]

\* The map key with kind -> Resource that GetResourcesWithFilter collects: the holders
\* of hosts of the kinds of the filter, then the holders of listeners.
FilteredResources(c, filter) ==
    LET wanted(r) ==
            CASE r.kind = ingressKind -> filter.Ingresses
              [] r.kind = virtualServerKind -> filter.VirtualServers
              [] r.kind = transportServerKind -> filter.TransportServers
        fromHosts == {h \in DOMAIN c.hosts : wanted(c.hosts[h])}
        fromListeners == IF filter.TransportServers THEN DOMAIN c.listenerHosts ELSE {}
        keys == {GetKeyWithKind(c.hosts[h]) : h \in fromHosts}
                    \cup {GetKeyWithKind(c.listenerHosts[k]) : k \in fromListeners}
    IN [x \in keys |->
           IF \E k \in fromListeners : GetKeyWithKind(c.listenerHosts[k]) = x
           THEN c.listenerHosts[CHOOSE k \in fromListeners : GetKeyWithKind(c.listenerHosts[k]) = x]
           ELSE c.hosts[CHOOSE h \in fromHosts : GetKeyWithKind(c.hosts[h]) = x]]

GetResourcesWithFilter(c, filter) ==
    Bind(FilteredResources(c, filter), LAMBDA m :
        FoldSeq(LAMBDA a, key : Append(a, m[key]), <<>>, SortKeys(DOMAIN m)))

GetResources(c) == GetResourcesWithFilter(c, AllKinds)

\* Whether the checker answers true for the holder r of a host.
IsReferencedByResource(checker, r) ==
    CASE r.kind = ingressKind ->
            \/ r.obj \in checker
            \/ \E i \in DOMAIN r.minions : r.minions[i].ingress \in checker
      [] r.kind = virtualServerKind ->
            \/ r.obj \in checker
            \/ \E i \in DOMAIN r.routes : r.routes[i] \in checker
      [] r.kind = transportServerKind -> r.obj \in checker

findResourcesForResourceReference(c, checker) ==
    FoldSeq(LAMBDA a, h : IF IsReferencedByResource(checker, c.hosts[h[1]])
                          THEN Append(a, c.hosts[h[1]]) ELSE a,
            <<>>, SortKeys({<<h>> : h \in DOMAIN c.hosts}))
    \o FoldSeq(LAMBDA a, lh : IF c.listenerHosts[lh].obj \in checker
                              THEN Append(a, c.listenerHosts[lh]) ELSE a,
               <<>>, SortKeys(DOMAIN c.listenerHosts))

GetTransportServerMetrics(c) ==
    [TotalTLSPassthrough |->
        IF c.isTLSPassthroughEnabled
        THEN Cardinality({h \in DOMAIN c.hosts : c.hosts[h].kind = transportServerKind})
        ELSE 0,
     TotalTCP |-> Cardinality({k \in DOMAIN c.listenerHosts :
                                  c.listenerHosts[k].obj.listener.protocol = "TCP"}),
     TotalUDP |-> Cardinality({k \in DOMAIN c.listenerHosts :
                                  c.listenerHosts[k].obj.listener.protocol # "TCP"})]

GetGlobalConfiguration(c) == c.globalConfiguration

----------------------------------------------------------------------------
(* The objects the watch layer delivers.                                   *)

MaxTime == 2   \* creationTimestamps are 1..MaxTime
MaxUID == 2    \* the UIDs of the resources compared by Wins are 1..MaxUID

NoAnnotations == EmptyMap

Path(path, service, port) == [path |-> path, service |-> service, port |-> port]

Rule(host, paths) == [host |-> host, paths |-> paths]

Ingress(ns, name, ts, uid, gen, annotations, challengeLabel, rules, class, err) ==
    [ns |-> ns, name |-> name, creationTimestamp |-> ts, uid |-> uid, generation |-> gen,
     annotations |-> annotations, challengeLabel |-> challengeLabel, rules |-> rules,
     class |-> class, err |-> err]

VirtualServer(ns, name, ts, uid, gen, host, routes, listener, class, err) ==
    [ns |-> ns, name |-> name, creationTimestamp |-> ts, uid |-> uid, generation |-> gen,
     host |-> host, routes |-> routes, listener |-> listener, class |-> class, err |-> err]

VirtualServerRoute(ns, name, gen, host, path, class, err) ==
    [ns |-> ns, name |-> name, generation |-> gen, host |-> host, path |-> path,
     class |-> class, err |-> err]

TransportServer(ns, name, ts, uid, gen, host, listenerName, protocol, class, err) ==
    [ns |-> ns, name |-> name, creationTimestamp |-> ts, uid |-> uid, generation |-> gen,
     host |-> host, listener |-> [name |-> listenerName, protocol |-> protocol],
     class |-> class, err |-> err]

Listener(name, port, protocol, ssl) ==
    [name |-> name, port |-> port, protocol |-> protocol, ssl |-> ssl,
     ipv4 |-> "127.0.0.1", ipv6 |-> "::1"]

GlobalConfiguration(listeners, err) == [listeners |-> listeners, err |-> err]

WebPath == Path("/", "web", 80)

\* Scenario "main": two hosts; an Ingress with one or two hosts, a challenge Ingress, a
\* VirtualServer, a TransportServer that is TLS passthrough or bound to a listener, and
\* a global configuration with that listener.
MainIngresses ==
    {Ingress("a", "a", ts, 2, 1, NoAnnotations, "", rules, TRUE, "") :
        ts \in 1..MaxTime,
        rules \in {<<Rule("h1", <<WebPath>>)>>,
                   <<Rule("h1", <<WebPath>>), Rule("h2", <<WebPath>>)>>}}
    \cup {Ingress("b", "b", MaxTime, 4, 1, NoAnnotations, "true",
                  <<Rule("h1", <<Path("/.well-known/acme-challenge/X", "solver", 8089)>>)>>,
                  TRUE, "")}
    \cup {Ingress("a", "a", 1, 2, 1, NoAnnotations, "", <<Rule("h1", <<WebPath>>)>>, TRUE, "invalid"),
          Ingress("a", "a", 1, 2, 1, NoAnnotations, "", <<Rule("h1", <<WebPath>>)>>, FALSE, "")}

MainVirtualServers ==
    {VirtualServer("a", "a", ts, 1, 1, host, <<>>, Nil, TRUE, "") :
        ts \in 1..MaxTime, host \in {"h1", "h2"}}
    \cup {VirtualServer("a", "a", 1, 1, 1, "h1", <<>>, Nil, TRUE, "invalid"),
          VirtualServer("a", "a", 1, 1, 1, "h1", <<>>, Nil, FALSE, "")}

MainVirtualServerRoutes ==
    {VirtualServerRoute("a", "r", 1, "h1", "/r", TRUE, "invalid"),
     VirtualServerRoute("a", "r", 1, "h1", "/r", FALSE, "")}

MainTransportServers ==
    {TransportServer("a", "a", ts, 3, 1, "h1", TLSPassthroughListenerName,
                     TLSPassthroughListenerProtocol, TRUE, "") : ts \in 1..MaxTime}
    \cup {TransportServer("a", "a", 1, 3, 1, "", "tcp-90", "TCP", TRUE, ""),
          TransportServer("a", "a", 1, 3, 1, "", "tcp-90", "TCP", TRUE, "invalid"),
          TransportServer("a", "a", 1, 3, 1, "", "tcp-90", "TCP", FALSE, "")}

MainGlobalConfigurations ==
    {GlobalConfiguration(<<Listener("tcp-90", 90, "TCP", FALSE)>>, "")}

\* Scenario "listeners": three TransportServers bound to the TCP listener tcp-90, two
\* of them with every creationTimestamp and the third with or without a host, a global
\* configuration that has the listener with the same or with another protocol, and
\* one object of each other kind.
ListenerIngresses ==
    {Ingress("a", "a", 1, 5, 1, NoAnnotations, "", <<Rule("h1", <<WebPath>>)>>, TRUE, "")}

ListenerVirtualServers ==
    {VirtualServer("a", "a", 1, 4, 1, "h1", <<>>, Nil, TRUE, "")}

ListenerVirtualServerRoutes ==
    {VirtualServerRoute("a", "r", 1, "h1", "/r", TRUE, "invalid")}

ListenerTransportServers ==
    {TransportServer("a", "a", ts, 1, 1, "", "tcp-90", "TCP", TRUE, "") : ts \in 1..MaxTime}
    \cup {TransportServer("b", "b", ts, 2, 1, "", "tcp-90", "TCP", TRUE, "") : ts \in 1..MaxTime}
    \cup {TransportServer("c", "c", 1, 3, 1, host, "tcp-90", "TCP", TRUE, "") : host \in {"", "h1"}}

ListenerGlobalConfigurations ==
    {GlobalConfiguration(<<Listener("tcp-90", 90, protocol, FALSE)>>, "") :
        protocol \in {"TCP", "UDP"}}

\* Scenario "composed": a master Ingress of h1 that can turn into a regular Ingress, two
\* minions that contend for a path, a VirtualServer with a route to a
\* VirtualServerRoute and with or without listeners, a global configuration with an
\* HTTP listener with or without SSL, and a TLS-passthrough TransportServer.
MasterAnnotations == [x \in {mergeableIngressTypeAnnotation} |-> "master"]

MinionAnnotations == [x \in {mergeableIngressTypeAnnotation} |-> "minion"]

ComposedIngresses ==
    {Ingress("a", "a", 1, 1, 1, MasterAnnotations, "", <<Rule("h1", <<>>)>>, TRUE, ""),
     Ingress("a", "a", 1, 1, 2, NoAnnotations, "", <<Rule("h1", <<WebPath>>)>>, TRUE, "")}
    \cup {Ingress("b", "b", ts, 2, 1, MinionAnnotations, "",
                  <<Rule("h1", <<Path("/x", "web", 80)>>)>>, TRUE, "") : ts \in 1..MaxTime}
    \cup {Ingress("c", "c", 1, 3, 1, MinionAnnotations, "",
                  <<Rule("h1", <<Path("/x", "web", 80), Path("/y", "web", 80)>>)>>, TRUE, ""),
          Ingress("b", "b", 1, 2, 1, MinionAnnotations, "",
                  <<Rule("h1", <<Path("/x", "web", 80)>>)>>, TRUE, "invalid"),
          Ingress("b", "b", 1, 2, 1, MinionAnnotations, "",
                  <<Rule("h1", <<Path("/x", "web", 80)>>)>>, FALSE, "")}

ComposedVirtualServers ==
    {VirtualServer("a", "a", 1, 4, 1, host, <<[path |-> "/r", route |-> <<"r">>]>>, listener, TRUE, "") :
        host \in {"h1", "h2"},
        listener \in {Nil, [http |-> "http-80", https |-> ""]}}
    \cup {VirtualServer("a", "a", 1, 4, 1, "h2", <<>>, Nil, TRUE, "invalid"),
          VirtualServer("a", "a", 1, 4, 1, "h2", <<>>, Nil, FALSE, "")}

ComposedVirtualServerRoutes ==
    {VirtualServerRoute("a", "r", 1, "h2", path, TRUE, "") : path \in {"/r", "/q"}}
    \cup {VirtualServerRoute("a", "r", 1, "h2", "/r", TRUE, "invalid"),
          VirtualServerRoute("a", "r", 1, "h2", "/r", FALSE, "")}

ComposedTransportServers ==
    {TransportServer("a", "a", 1, 5, 1, "h2", TLSPassthroughListenerName,
                     TLSPassthroughListenerProtocol, TRUE, "")}

ComposedGlobalConfigurations ==
    {GlobalConfiguration(<<Listener("http-80", 80, HTTPProtocol, ssl)>>, "") : ssl \in BOOLEAN}

\* Scenario "warnings": two VirtualServers of the host h1 that name different listeners,
\* a global configuration that has one of the listeners, none of them or the first with
\* SSL, and one object of each other kind.
WarningsIngresses ==
    {Ingress("c", "c", 1, 3, 1, NoAnnotations, "", <<Rule("h2", <<WebPath>>)>>, TRUE, "")}

WarningsVirtualServers ==
    {VirtualServer("a", "a", 1, 1, 1, "h1", <<>>, [http |-> "http-80", https |-> ""], TRUE, ""),
     VirtualServer("b", "b", 1, 2, 1, "h1", <<>>, [http |-> "http-81", https |-> ""], TRUE, "")}
    \cup {VirtualServer("b", "b", ts, 2, 1, "h2", <<>>, Nil, TRUE, "") : ts \in 1..MaxTime}

WarningsVirtualServerRoutes ==
    {VirtualServerRoute("a", "r", 1, "h1", "/r", TRUE, "")}

WarningsTransportServers ==
    {TransportServer("a", "a", 1, 4, 1, "h2", TLSPassthroughListenerName,
                     TLSPassthroughListenerProtocol, TRUE, "")}

WarningsGlobalConfigurations ==
    {GlobalConfiguration(<<Listener("tcp-90", 90, "TCP", FALSE)>>, ""),
     GlobalConfiguration(<<Listener("http-80", 80, HTTPProtocol, FALSE)>>, ""),
     GlobalConfiguration(<<Listener("http-80", 80, HTTPProtocol, TRUE)>>, "")}

\* Scenario "concurrent": a TransportServer of the TCP listener tcp-90, a TLS
\* Passthrough TransportServer of the host h1, a global configuration with the
\* listener, an Ingress of the host h1 and a VirtualServer of the host h2.
ConcurrentIngresses ==
    {Ingress("c", "c", 2, 3, 1, NoAnnotations, "", <<Rule("h1", <<WebPath>>)>>, TRUE, "")}

ConcurrentVirtualServers ==
    {VirtualServer("a", "a", 2, 4, 1, "h2", <<>>, Nil, TRUE, "")}

ConcurrentVirtualServerRoutes == {}

ConcurrentTransportServers ==
    {TransportServer("a", "a", 1, 1, 1, "", "tcp-90", "TCP", TRUE, ""),
     TransportServer("b", "b", 1, 2, 1, "h1", TLSPassthroughListenerName,
                     TLSPassthroughListenerProtocol, TRUE, "")}

ConcurrentGlobalConfigurations ==
    {GlobalConfiguration(<<Listener("tcp-90", 90, "TCP", FALSE)>>, "")}

\* Scenario "merge": a master of the host h1 with every creationTimestamp, a regular
\* Ingress with the key of the master, two minions of h1 that contend for a path, one
\* of them also delivered invalid, a VirtualServer of h1 that is older than the later
\* masters, and one object of each other kind.
MergeIngresses ==
    {Ingress("a", "a", ts, 1, 1, MasterAnnotations, "", <<Rule("h1", <<>>)>>, TRUE, "") :
        ts \in 1..MaxTime}
    \cup {Ingress("a", "a", 1, 1, 2, NoAnnotations, "", <<Rule("h1", <<WebPath>>)>>, TRUE, ""),
          Ingress("b", "b", 1, 2, 1, MinionAnnotations, "",
                  <<Rule("h1", <<Path("/x", "web", 80)>>)>>, TRUE, ""),
          Ingress("b", "b", 1, 2, 1, MinionAnnotations, "",
                  <<Rule("h1", <<Path("/x", "web", 80)>>)>>, TRUE, "invalid"),
          Ingress("c", "c", 1, 3, 1, MinionAnnotations, "",
                  <<Rule("h1", <<Path("/x", "web", 80), Path("/y", "web", 80)>>)>>, TRUE, "")}

MergeVirtualServers ==
    {VirtualServer("a", "a", 1, 4, 1, "h1", <<>>, Nil, TRUE, "")}

MergeVirtualServerRoutes ==
    {VirtualServerRoute("a", "r", 1, "h1", "/r", TRUE, "")}

MergeTransportServers ==
    {TransportServer("a", "a", 1, 5, 1, "h2", TLSPassthroughListenerName,
                     TLSPassthroughListenerProtocol, TRUE, "")}

MergeGlobalConfigurations ==
    {GlobalConfiguration(<<Listener("tcp-90", 90, "TCP", FALSE)>>, "")}

\* Scenario "routes": a VirtualServer of the host h1, with every creationTimestamp,
\* that has a route to the VirtualServerRoute a/r or no route; the VirtualServerRoute
\* a/r of h1 under the path of the route or under another path, or of h2; an Ingress of
\* h1 older than the later VirtualServers; a challenge Ingress of h1 with the namespace
\* and name of the VirtualServerRoute; and one object of each other kind.
RoutesIngresses ==
    {Ingress("c", "c", 1, 3, 1, NoAnnotations, "", <<Rule("h1", <<WebPath>>)>>, TRUE, ""),
     Ingress("a", "r", 2, 5, 1, NoAnnotations, "true",
             <<Rule("h1", <<Path("/challenge", "solver", 8089)>>)>>, TRUE, "")}

RoutesVirtualServers ==
    {VirtualServer("a", "a", ts, 4, 1, "h1", routes, Nil, TRUE, "") :
        ts \in 1..MaxTime, routes \in {<<>>, <<[path |-> "/r", route |-> <<"r">>]>>}}

RoutesVirtualServerRoutes ==
    {VirtualServerRoute("a", "r", 1, "h1", path, TRUE, "") : path \in {"/r", "/q"}}
    \cup {VirtualServerRoute("a", "r", 1, "h2", "/r", TRUE, "")}

RoutesTransportServers ==
    {TransportServer("a", "a", 1, 6, 1, "h2", TLSPassthroughListenerName,
                     TLSPassthroughListenerProtocol, TRUE, "")}

RoutesGlobalConfigurations ==
    {GlobalConfiguration(<<Listener("tcp-90", 90, "TCP", FALSE)>>, "")}

\* Scenario "challenge": an Ingress of the host h1 with the label of the cert-manager
\* HTTP-01 solver, plain or a minion; an Ingress of h1 without the label that is older
\* than the later VirtualServers; a VirtualServer of h1 with every creationTimestamp;
\* and one object of each other kind.  cert-manager is enabled or not.
ChallengeIngresses ==
    {Ingress("b", "b", 2, 2, 1, NoAnnotations, "true",
             <<Rule("h1", <<Path("/challenge", "solver", 8089)>>)>>, TRUE, ""),
     Ingress("d", "d", 2, 5, 1, MinionAnnotations, "true",
             <<Rule("h1", <<Path("/challenge", "solver", 8089)>>)>>, TRUE, ""),
     Ingress("c", "c", 1, 3, 1, NoAnnotations, "", <<Rule("h1", <<WebPath>>)>>, TRUE, "")}

ChallengeVirtualServers ==
    {VirtualServer("a", "a", ts, 4, 1, "h1", <<>>, Nil, TRUE, "") : ts \in 1..MaxTime}

ChallengeVirtualServerRoutes ==
    {VirtualServerRoute("a", "r", 1, "h1", "/r", TRUE, "")}

ChallengeTransportServers ==
    {TransportServer("a", "a", 1, 6, 1, "h2", TLSPassthroughListenerName,
                     TLSPassthroughListenerProtocol, TRUE, "")}

ChallengeGlobalConfigurations ==
    {GlobalConfiguration(<<Listener("tcp-90", 90, "TCP", FALSE)>>, "")}

\* Scenario "passthrough": TransportServers of the host h1 with each combination of the
\* listener name tls-passthrough or tcp-90 and the protocol TLS_PASSTHROUGH or TCP, an
\* Ingress of h1, and one object of each other kind.  TLS Passthrough is enabled or not.
PassthroughIngresses ==
    {Ingress("c", "c", 2, 3, 1, NoAnnotations, "", <<Rule("h1", <<WebPath>>)>>, TRUE, "")}

PassthroughVirtualServers ==
    {VirtualServer("a", "a", 1, 4, 1, "h2", <<>>, Nil, TRUE, "")}

PassthroughVirtualServerRoutes ==
    {VirtualServerRoute("a", "r", 1, "h2", "/r", TRUE, "")}

PassthroughTransportServers ==
    {TransportServer("a", "a", 1, 1, 1, "h1", listenerName, protocol, TRUE, "") :
        listenerName \in {TLSPassthroughListenerName, "tcp-90"},
        protocol \in {TLSPassthroughListenerProtocol, "TCP"}}
    \cup {TransportServer("b", "b", 3, 2, 1, "h1", TLSPassthroughListenerName,
                          TLSPassthroughListenerProtocol, TRUE, "")}

PassthroughGlobalConfigurations ==
    {GlobalConfiguration(<<Listener("tcp-90", 90, "TCP", FALSE)>>, "")}

\* Scenario "ports": the VirtualServer a/a of the host h1 with no listener spec or with
\* one that names the listeners http-80 and https-443 (also crossed), the older
\* VirtualServer b/b of the same host, and global configurations whose listeners of these
\* names differ in port, address, protocol and ssl, one of them with a name twice; the
\* Ingress is of another class and the VirtualServerRoute is invalid.
PortsIngresses ==
    {Ingress("c", "c", 1, 3, 1, NoAnnotations, "", <<Rule("h2", <<WebPath>>)>>, FALSE, "")}

PortsVirtualServers ==
    {VirtualServer("a", "a", 2, 1, 1, "h1", <<>>, listener, TRUE, "") :
        listener \in {Nil,
                      [http |-> "http-80", https |-> "https-443"],
                      [http |-> "http-80", https |-> ""],
                      [http |-> "https-443", https |-> "http-80"]}}
    \cup {VirtualServer("b", "b", 1, 2, 1, "h1", <<>>, [http |-> "http-80", https |-> ""], TRUE, "")}

PortsVirtualServerRoutes ==
    {VirtualServerRoute("a", "r", 1, "h1", "/r", TRUE, "invalid")}

PortsTransportServers ==
    {TransportServer("a", "a", 1, 4, 1, "h2", TLSPassthroughListenerName,
                     TLSPassthroughListenerProtocol, TRUE, "")}

PortsGlobalConfigurations ==
    {GlobalConfiguration(<<Listener("http-80", 80, HTTPProtocol, FALSE),
                           Listener("https-443", 443, HTTPProtocol, TRUE)>>, ""),
     GlobalConfiguration(<<[Listener("http-80", 80, HTTPProtocol, FALSE) EXCEPT !.ipv4 = "10.0.0.1"],
                           [Listener("https-443", 443, HTTPProtocol, TRUE) EXCEPT !.ipv6 = "::2"]>>, ""),
     GlobalConfiguration(<<Listener("http-80", 8080, HTTPProtocol, FALSE)>>, ""),
     GlobalConfiguration(<<Listener("http-80", 80, HTTPProtocol, TRUE)>>, ""),
     GlobalConfiguration(<<Listener("http-80", 80, "TCP", FALSE)>>, ""),
     GlobalConfiguration(<<Listener("http-80", 80, HTTPProtocol, FALSE),
                           Listener("http-80", 81, HTTPProtocol, TRUE)>>, "invalid")}

\* Scenario "owners": the hosts h1 and h2 are claimed by the Ingress c/c (every
\* creationTimestamp, one or both hosts; also invalid and of another class), by the
\* Ingress a/a (both hosts), by the VirtualServer b/b (h1; also invalid and of another
\* class) and by the TLS Passthrough TransportServer a/a (h2); the TransportServer b/b
\* names the listener tcp-90 of the global configuration.
OwnersIngresses ==
    {Ingress("c", "c", ts, 1, 1, NoAnnotations, "", rules, TRUE, "") :
        ts \in 1..MaxTime,
        rules \in {<<Rule("h1", <<WebPath>>)>>,
                   <<Rule("h1", <<WebPath>>), Rule("h2", <<WebPath>>)>>}}
    \cup {Ingress("c", "c", 1, 1, 1, NoAnnotations, "", <<Rule("h1", <<WebPath>>)>>, TRUE, "invalid"),
          Ingress("c", "c", 1, 1, 1, NoAnnotations, "", <<Rule("h1", <<WebPath>>)>>, FALSE, "")}
    \cup {Ingress("a", "a", 2, 2, 1, NoAnnotations, "",
                  <<Rule("h1", <<WebPath>>), Rule("h2", <<WebPath>>)>>, TRUE, "")}

OwnersVirtualServers ==
    {VirtualServer("b", "b", 2, 3, 1, "h1", <<>>, Nil, TRUE, ""),
     VirtualServer("b", "b", 2, 3, 1, "h1", <<>>, Nil, TRUE, "invalid"),
     VirtualServer("b", "b", 2, 3, 1, "h1", <<>>, Nil, FALSE, "")}

OwnersVirtualServerRoutes ==
    {VirtualServerRoute("a", "r", 1, "h1", "/r", TRUE, "invalid")}

OwnersTransportServers ==
    {TransportServer("a", "a", 2, 4, 1, "h2", TLSPassthroughListenerName,
                     TLSPassthroughListenerProtocol, TRUE, ""),
     TransportServer("b", "b", 1, 5, 1, "", "tcp-90", "TCP", TRUE, "")}

OwnersGlobalConfigurations ==
    {GlobalConfiguration(<<Listener("tcp-90", 90, "TCP", FALSE)>>, "")}

\* Scenario "protocols": the TransportServers a/a and b/b name the listener tcp-90 with
\* the same host, a/a with the protocol TCP or UDP and b/b with the UID of a/a or
\* another one; the global configuration has tcp-90 as a TCP listener with one of two
\* IPv4 addresses or as a UDP listener, or another listener only.
\* The Ingress is of another class and the VirtualServerRoute is invalid.
ProtocolsIngresses ==
    {Ingress("c", "c", 1, 3, 1, NoAnnotations, "", <<Rule("h2", <<WebPath>>)>>, FALSE, "")}

ProtocolsVirtualServers ==
    {VirtualServer("a", "a", 1, 4, 1, "h1", <<>>, Nil, TRUE, "")}

ProtocolsVirtualServerRoutes ==
    {VirtualServerRoute("a", "r", 1, "h1", "/r", TRUE, "invalid")}

ProtocolsTransportServers ==
    {TransportServer("a", "a", ts, 1, 1, "", "tcp-90", protocol, TRUE, "") :
        ts \in 1..MaxTime, protocol \in {"TCP", "UDP"}}
    \cup {TransportServer("b", "b", 1, uid, 1, "", "tcp-90", "TCP", TRUE, "") : uid \in 1..MaxUID}

ProtocolsGlobalConfigurations ==
    {GlobalConfiguration(<<Listener("tcp-90", 90, "TCP", FALSE)>>, ""),
     GlobalConfiguration(<<[Listener("tcp-90", 90, "TCP", FALSE) EXCEPT !.ipv4 = "10.0.0.1"]>>, ""),
     GlobalConfiguration(<<Listener("tcp-90", 90, "UDP", FALSE)>>, ""),
     GlobalConfiguration(<<Listener("udp-53", 53, "UDP", FALSE)>>, "")}

\* A minion with one more annotation.
RewritingMinionAnnotations ==
    [x \in {mergeableIngressTypeAnnotation, "nginx.org/rewrites"} |->
        IF x = mergeableIngressTypeAnnotation THEN "minion" ELSE "serviceName=web rewrite=/"]

\* Scenario "paths": a master of the host h1 and three minions of h1: b/b declares /x
\* and is older than, as old as or younger than c/c, which declares /x and /y, with
\* one or two annotations; d/d declares /z, once or, with another generation, in two
\* paths of its rule.
\* The VirtualServer and the TransportServer are of another class and the
\* VirtualServerRoute is invalid.
PathsIngresses ==
    {Ingress("a", "a", 1, 1, 1, MasterAnnotations, "", <<Rule("h1", <<>>)>>, TRUE, "")}
    \cup {Ingress("b", "b", ts, 2, 1, MinionAnnotations, "",
                  <<Rule("h1", <<Path("/x", "web", 80)>>)>>, TRUE, "") : ts \in 1..MaxTime}
    \cup {Ingress("c", "c", 1, 3, 1, annotations, "",
                  <<Rule("h1", <<Path("/x", "web", 80), Path("/y", "web", 80)>>)>>, TRUE, "") :
              annotations \in {MinionAnnotations, RewritingMinionAnnotations}}
    \cup {Ingress("d", "d", 1, 4, 1, MinionAnnotations, "",
                  <<Rule("h1", <<Path("/z", "web", 80)>>)>>, TRUE, ""),
          Ingress("d", "d", 1, 4, 2, MinionAnnotations, "",
                  <<Rule("h1", <<Path("/z", "web", 80), Path("/z", "api", 80)>>)>>, TRUE, "")}

PathsVirtualServers ==
    {VirtualServer("a", "a", 1, 5, 1, "h1", <<>>, Nil, FALSE, "")}

PathsVirtualServerRoutes ==
    {VirtualServerRoute("a", "r", 1, "h1", "/r", TRUE, "invalid")}

PathsTransportServers ==
    {TransportServer("a", "a", 1, 6, 1, "h2", TLSPassthroughListenerName,
                     TLSPassthroughListenerProtocol, FALSE, "")}

PathsGlobalConfigurations ==
    {GlobalConfiguration(<<Listener("http-80", 80, HTTPProtocol, FALSE)>>, "")}

\* Scenario "metrics": the TransportServer a/a of the host h1 names the listener
\* tls-passthrough with the protocol TLS_PASSTHROUGH or TCP, b/b names tcp-90 with TCP
\* or UDP, and the global configuration has the listener tcp-90 as TCP, together with
\* a TCP listener of the name tls-passthrough, or as UDP.
\* The Ingress and the VirtualServer are of another class and the VirtualServerRoute is
\* invalid.
MetricsIngresses ==
    {Ingress("c", "c", 1, 3, 1, NoAnnotations, "", <<Rule("h2", <<WebPath>>)>>, FALSE, "")}

MetricsVirtualServers ==
    {VirtualServer("a", "a", 1, 4, 1, "h1", <<>>, Nil, FALSE, "")}

MetricsVirtualServerRoutes ==
    {VirtualServerRoute("a", "r", 1, "h1", "/r", TRUE, "invalid")}

MetricsTransportServers ==
    {TransportServer("a", "a", 1, 1, 1, "h1", TLSPassthroughListenerName, protocol, TRUE, "") :
        protocol \in {TLSPassthroughListenerProtocol, "TCP"}}
    \cup {TransportServer("b", "b", ts, 2, 1, "", "tcp-90", protocol, TRUE, "") :
              ts \in 1..MaxTime, protocol \in {"TCP", "UDP"}}
    \cup {TransportServer("c", "c", 1, 5, 1, "h1", TLSPassthroughListenerName,
                          TLSPassthroughListenerProtocol, TRUE, "")}

MetricsGlobalConfigurations ==
    {GlobalConfiguration(<<Listener("tcp-90", 90, "TCP", FALSE),
                           Listener(TLSPassthroughListenerName, 443, "TCP", FALSE)>>, ""),
     GlobalConfiguration(<<Listener("tcp-90", 90, "UDP", FALSE)>>, "")}

\* Scenario "frame": the Ingress c/c of the host h1, older than the TransportServer a/a
\* of h1 or of its age, a/a names the listener tls-passthrough with the protocol
\* TLS_PASSTHROUGH or TCP, b/b names tcp-90, and the global configuration has the TCP
\* listeners tcp-90 and tls-passthrough.  TLS Passthrough is enabled or not.
\* The VirtualServer is of another class and the VirtualServerRoute is invalid.
FrameIngresses ==
    {Ingress("c", "c", ts, 3, 1, NoAnnotations, "", <<Rule("h1", <<WebPath>>)>>, TRUE, "") :
        ts \in 1..MaxTime}

FrameVirtualServers ==
    {VirtualServer("a", "a", 1, 4, 1, "h1", <<>>, Nil, FALSE, "")}

FrameVirtualServerRoutes ==
    {VirtualServerRoute("a", "r", 1, "h1", "/r", TRUE, "invalid")}

FrameTransportServers ==
    {TransportServer("a", "a", 2, 1, 1, "h1", TLSPassthroughListenerName, protocol, TRUE, "") :
        protocol \in {TLSPassthroughListenerProtocol, "TCP"}}
    \cup {TransportServer("b", "b", 1, 2, 1, "h1", "tcp-90", "TCP", TRUE, "")}

FrameGlobalConfigurations ==
    {GlobalConfiguration(<<Listener("tcp-90", 90, "TCP", FALSE),
                           Listener(TLSPassthroughListenerName, 443, "TCP", FALSE)>>, "")}

IngressInputs ==
    IF scenario = "main" THEN MainIngresses
    ELSE IF scenario = "listeners" THEN ListenerIngresses
    ELSE IF scenario = "composed" THEN ComposedIngresses
    ELSE IF scenario = "warnings" THEN WarningsIngresses
    ELSE IF scenario = "concurrent" THEN ConcurrentIngresses
    ELSE IF scenario = "merge" THEN MergeIngresses
    ELSE IF scenario = "routes" THEN RoutesIngresses
    ELSE IF scenario = "challenge" THEN ChallengeIngresses
    ELSE IF scenario = "passthrough" THEN PassthroughIngresses
    ELSE IF scenario = "ports" THEN PortsIngresses
    ELSE IF scenario = "owners" THEN OwnersIngresses
    ELSE IF scenario = "protocols" THEN ProtocolsIngresses
    ELSE IF scenario = "paths" THEN PathsIngresses
    ELSE IF scenario = "metrics" THEN MetricsIngresses
    ELSE IF scenario = "frame" THEN FrameIngresses ELSE {}

VirtualServerInputs ==
    IF scenario = "main" THEN MainVirtualServers
    ELSE IF scenario = "listeners" THEN ListenerVirtualServers
    ELSE IF scenario = "composed" THEN ComposedVirtualServers
    ELSE IF scenario = "warnings" THEN WarningsVirtualServers
    ELSE IF scenario = "concurrent" THEN ConcurrentVirtualServers
    ELSE IF scenario = "merge" THEN MergeVirtualServers
    ELSE IF scenario = "routes" THEN RoutesVirtualServers
    ELSE IF scenario = "challenge" THEN ChallengeVirtualServers
    ELSE IF scenario = "passthrough" THEN PassthroughVirtualServers
    ELSE IF scenario = "ports" THEN PortsVirtualServers
    ELSE IF scenario = "owners" THEN OwnersVirtualServers
    ELSE IF scenario = "protocols" THEN ProtocolsVirtualServers
    ELSE IF scenario = "paths" THEN PathsVirtualServers
    ELSE IF scenario = "metrics" THEN MetricsVirtualServers
    ELSE IF scenario = "frame" THEN FrameVirtualServers ELSE {}

VirtualServerRouteInputs ==
    IF scenario = "main" THEN MainVirtualServerRoutes
    ELSE IF scenario = "listeners" THEN ListenerVirtualServerRoutes
    ELSE IF scenario = "composed" THEN ComposedVirtualServerRoutes
    ELSE IF scenario = "warnings" THEN WarningsVirtualServerRoutes
    ELSE IF scenario = "concurrent" THEN ConcurrentVirtualServerRoutes
    ELSE IF scenario = "merge" THEN MergeVirtualServerRoutes
    ELSE IF scenario = "routes" THEN RoutesVirtualServerRoutes
    ELSE IF scenario = "challenge" THEN ChallengeVirtualServerRoutes
    ELSE IF scenario = "passthrough" THEN PassthroughVirtualServerRoutes
    ELSE IF scenario = "ports" THEN PortsVirtualServerRoutes
    ELSE IF scenario = "owners" THEN OwnersVirtualServerRoutes
    ELSE IF scenario = "protocols" THEN ProtocolsVirtualServerRoutes
    ELSE IF scenario = "paths" THEN PathsVirtualServerRoutes
    ELSE IF scenario = "metrics" THEN MetricsVirtualServerRoutes
    ELSE IF scenario = "frame" THEN FrameVirtualServerRoutes ELSE {}

TransportServerInputs ==
    IF scenario = "main" THEN MainTransportServers
    ELSE IF scenario = "listeners" THEN ListenerTransportServers
    ELSE IF scenario = "composed" THEN ComposedTransportServers
    ELSE IF scenario = "warnings" THEN WarningsTransportServers
    ELSE IF scenario = "concurrent" THEN ConcurrentTransportServers
    ELSE IF scenario = "merge" THEN MergeTransportServers
    ELSE IF scenario = "routes" THEN RoutesTransportServers
    ELSE IF scenario = "challenge" THEN ChallengeTransportServers
    ELSE IF scenario = "passthrough" THEN PassthroughTransportServers
    ELSE IF scenario = "ports" THEN PortsTransportServers
    ELSE IF scenario = "owners" THEN OwnersTransportServers
    ELSE IF scenario = "protocols" THEN ProtocolsTransportServers
    ELSE IF scenario = "paths" THEN PathsTransportServers
    ELSE IF scenario = "metrics" THEN MetricsTransportServers
    ELSE IF scenario = "frame" THEN FrameTransportServers ELSE {}

GlobalConfigurationInputs ==
    IF scenario = "main" THEN MainGlobalConfigurations
    ELSE IF scenario = "listeners" THEN ListenerGlobalConfigurations
    ELSE IF scenario = "composed" THEN ComposedGlobalConfigurations
    ELSE IF scenario = "warnings" THEN WarningsGlobalConfigurations
    ELSE IF scenario = "concurrent" THEN ConcurrentGlobalConfigurations
    ELSE IF scenario = "merge" THEN MergeGlobalConfigurations
    ELSE IF scenario = "routes" THEN RoutesGlobalConfigurations
    ELSE IF scenario = "challenge" THEN ChallengeGlobalConfigurations
    ELSE IF scenario = "passthrough" THEN PassthroughGlobalConfigurations
    ELSE IF scenario = "ports" THEN PortsGlobalConfigurations
    ELSE IF scenario = "owners" THEN OwnersGlobalConfigurations
    ELSE IF scenario = "protocols" THEN ProtocolsGlobalConfigurations
    ELSE IF scenario = "paths" THEN PathsGlobalConfigurations
    ELSE IF scenario = "metrics" THEN MetricsGlobalConfigurations
    ELSE IF scenario = "frame" THEN FrameGlobalConfigurations ELSE {}

\* The orders in which the loops over the maps of the VirtualServerConfigurations and
\* of the TransportServers can run: one if neither has two entries.
MapOrders(vss, tss) ==
    LET n == Cardinality(DOMAIN vss)
        m == Cardinality(DOMAIN tss)
    IN RangeOrders(IF n > m THEN n ELSE m)

\* The keys Delete is called with: those of the delivered objects and one of no object.
UnknownKey == <<"d", "a">>
KeysOf(S) == {getResourceKey(o) : o \in S} \cup {UnknownKey}

----------------------------------------------------------------------------
(* The state machine.                                                      *)

NoMetas == <<>>

InitStore ==
    /\ ingresses = EmptyMap
    /\ virtualServers = EmptyMap
    /\ virtualServerRoutes = EmptyMap
    /\ transportServers = EmptyMap
    /\ globalConfiguration = Nil
    /\ hosts = EmptyMap
    /\ listenerHosts = EmptyMap
    /\ hostProblems = EmptyMap
    /\ listenerProblems = EmptyMap
    /\ resources = EmptyMap
    /\ tsConfigs = EmptyMap
    /\ lastCall = [op |-> "NewConfiguration", arg |-> Nil]
    /\ changes = <<>>
    /\ problems = <<>>
    /\ lock = [writer |-> FALSE, readers |-> 0]
    /\ mutator = [pc |-> "idle"]
    /\ reader = [pc |-> "idle"]
    /\ metricsReader = [pc |-> "idle"]

Init ==
    /\ InitStore
    /\ isTLSPassthroughEnabled = TRUE
    /\ isCertManagerEnabled = TRUE
    /\ scenario = "main"
    /\ winsInput = NoMetas

\* The call returns r: the store, the changes and the problems become the state.
Commit(r, op, arg) ==
    /\ ingresses' = r.c.ingresses
    /\ virtualServers' = r.c.virtualServers
    /\ virtualServerRoutes' = r.c.virtualServerRoutes
    /\ transportServers' = r.c.transportServers
    /\ globalConfiguration' = r.c.globalConfiguration
    /\ hosts' = r.c.hosts
    /\ listenerHosts' = r.c.listenerHosts
    /\ hostProblems' = r.c.hostProblems
    /\ listenerProblems' = r.c.listenerProblems
    /\ resources' = r.c.resources
    /\ tsConfigs' = r.c.tsConfigs
    /\ changes' = r.changes
    /\ problems' = r.problems
    /\ lastCall' = [op |-> op, arg |-> arg]
    /\ UNCHANGED <<isTLSPassthroughEnabled, isCertManagerEnabled, winsInput, scenario,
                   lock, mutator, reader, metricsReader>>

AddOrUpdateIngress ==
    \E ing \in IngressInputs :
        \E ord \in MapOrders(virtualServers, transportServers) :
            Commit(AddOrUpdateIngressCall(Store, ing, ord),
                   "AddOrUpdateIngress", ing)

DeleteIngress ==
    \E key \in KeysOf(IngressInputs) :
        \E ord \in MapOrders(virtualServers, transportServers) :
            Commit(DeleteIngressCall(Store, key, ord), "DeleteIngress", key)

AddOrUpdateVirtualServer ==
    \E vs \in VirtualServerInputs :
        \E ord \in MapOrders(StoreObject(virtualServers, vs), transportServers) :
            Commit(AddOrUpdateVirtualServerCall(Store, vs, ord),
                   "AddOrUpdateVirtualServer", vs)

DeleteVirtualServer ==
    \E key \in KeysOf(VirtualServerInputs) :
        \E ord \in MapOrders(virtualServers, transportServers) :
            Commit(DeleteVirtualServerCall(Store, key, ord), "DeleteVirtualServer", key)

AddOrUpdateVirtualServerRoute ==
    \E vsr \in VirtualServerRouteInputs :
        \E ord \in MapOrders(virtualServers, transportServers) :
            Commit(AddOrUpdateVirtualServerRouteCall(Store, vsr, ord),
                   "AddOrUpdateVirtualServerRoute", vsr)

DeleteVirtualServerRoute ==
    \E key \in KeysOf(VirtualServerRouteInputs) :
        \E ord \in MapOrders(virtualServers, transportServers) :
            Commit(DeleteVirtualServerRouteCall(Store, key, ord),
                   "DeleteVirtualServerRoute", key)

AddOrUpdateTransportServer ==
    \E ts \in TransportServerInputs :
        \E ord \in MapOrders(virtualServers, StoreObject(transportServers, ts)) :
            Commit(AddOrUpdateTransportServerCall(Store, ts, ord),
                   "AddOrUpdateTransportServer", ts)

DeleteTransportServer ==
    \E key \in KeysOf(TransportServerInputs) :
        \E ord \in MapOrders(virtualServers, transportServers) :
            Commit(DeleteTransportServerCall(Store, key, ord), "DeleteTransportServer", key)

AddOrUpdateGlobalConfiguration ==
    \E gc \in GlobalConfigurationInputs :
        \E ord \in MapOrders(virtualServers, transportServers) :
            Commit(AddOrUpdateGlobalConfigurationCall(Store, gc, ord),
                   "AddOrUpdateGlobalConfiguration", gc)

DeleteGlobalConfiguration ==
    \E ord \in MapOrders(virtualServers, transportServers) :
        Commit(DeleteGlobalConfigurationCall(Store, ord), "DeleteGlobalConfiguration", Nil)

Next ==
    \/ AddOrUpdateIngress
    \/ DeleteIngress
    \/ AddOrUpdateVirtualServer
    \/ DeleteVirtualServer
    \/ AddOrUpdateVirtualServerRoute
    \/ DeleteVirtualServerRoute
    \/ AddOrUpdateTransportServer
    \/ DeleteTransportServer
    \/ AddOrUpdateGlobalConfiguration
    \/ DeleteGlobalConfiguration

Spec == Init /\ [][Next]_vars

\* The same program fed the objects of the scenario "listeners".
InitListeners ==
    /\ InitStore
    /\ isTLSPassthroughEnabled = TRUE
    /\ isCertManagerEnabled = TRUE
    /\ scenario = "listeners"
    /\ winsInput = NoMetas

SpecListeners == InitListeners /\ [][Next]_vars

\* The same program fed the objects of the scenario "composed".
InitComposed ==
    /\ InitStore
    /\ isTLSPassthroughEnabled = TRUE
    /\ isCertManagerEnabled = TRUE
    /\ scenario = "composed"
    /\ winsInput = NoMetas

SpecComposed == InitComposed /\ [][Next]_vars

\* The same program fed the objects of the scenario "warnings".
InitWarnings ==
    /\ InitStore
    /\ isTLSPassthroughEnabled = TRUE
    /\ isCertManagerEnabled = TRUE
    /\ scenario = "warnings"
    /\ winsInput = NoMetas

SpecWarnings == InitWarnings /\ [][Next]_vars

\* The same program fed the objects of the scenario "merge".
InitMerge ==
    /\ InitStore
    /\ isTLSPassthroughEnabled = TRUE
    /\ isCertManagerEnabled = TRUE
    /\ scenario = "merge"
    /\ winsInput = NoMetas

SpecMerge == InitMerge /\ [][Next]_vars

\* The same program fed the objects of the scenario "routes".
InitRoutes ==
    /\ InitStore
    /\ isTLSPassthroughEnabled = TRUE
    /\ isCertManagerEnabled = TRUE
    /\ scenario = "routes"
    /\ winsInput = NoMetas

SpecRoutes == InitRoutes /\ [][Next]_vars

\* The same program fed the objects of the scenario "challenge".
InitChallenge ==
    /\ InitStore
    /\ isTLSPassthroughEnabled = TRUE
    /\ isCertManagerEnabled \in BOOLEAN
    /\ scenario = "challenge"
    /\ winsInput = NoMetas

SpecChallenge == InitChallenge /\ [][Next]_vars

\* The same program fed the objects of the scenario "passthrough".
InitPassthrough ==
    /\ InitStore
    /\ isTLSPassthroughEnabled \in BOOLEAN
    /\ isCertManagerEnabled = TRUE
    /\ scenario = "passthrough"
    /\ winsInput = NoMetas

SpecPassthrough == InitPassthrough /\ [][Next]_vars

\* The same program fed the objects of the scenario "ports".
InitPorts ==
    /\ InitStore
    /\ isTLSPassthroughEnabled = TRUE
    /\ isCertManagerEnabled = TRUE
    /\ scenario = "ports"
    /\ winsInput = NoMetas

SpecPorts == InitPorts /\ [][Next]_vars

\* The same program fed the objects of the scenario "owners".
InitOwners ==
    /\ InitStore
    /\ isTLSPassthroughEnabled = TRUE
    /\ isCertManagerEnabled = TRUE
    /\ scenario = "owners"
    /\ winsInput = NoMetas

SpecOwners == InitOwners /\ [][Next]_vars

\* The same program fed the objects of the scenario "protocols".
InitProtocols ==
    /\ InitStore
    /\ isTLSPassthroughEnabled = TRUE
    /\ isCertManagerEnabled = TRUE
    /\ scenario = "protocols"
    /\ winsInput = NoMetas

SpecProtocols == InitProtocols /\ [][Next]_vars

\* The same program fed the objects of the scenario "paths".
InitPaths ==
    /\ InitStore
    /\ isTLSPassthroughEnabled = TRUE
    /\ isCertManagerEnabled = TRUE
    /\ scenario = "paths"
    /\ winsInput = NoMetas

SpecPaths == InitPaths /\ [][Next]_vars

\* The same program fed the objects of the scenario "metrics".
InitMetrics ==
    /\ InitStore
    /\ isTLSPassthroughEnabled = TRUE
    /\ isCertManagerEnabled = TRUE
    /\ scenario = "metrics"
    /\ winsInput = NoMetas

SpecMetrics == InitMetrics /\ [][Next]_vars

\* The same program fed the objects of the scenario "frame".
InitFrame ==
    /\ InitStore
    /\ isTLSPassthroughEnabled \in BOOLEAN
    /\ isCertManagerEnabled = TRUE
    /\ scenario = "frame"
    /\ winsInput = NoMetas

SpecFrame == InitFrame /\ [][Next]_vars

\* The goroutines of the program: one that calls the mutators, one that calls a read
\* that takes the shared lock and one that calls GetTransportServerMetrics.  A mutator
\* is taken in the steps in which the others can see it: the lock, the update of the
\* stored objects, the assignment of c.listenerHosts, the assignment of c.hosts and
\* the return.  A read takes c.hosts and then c.listenerHosts.

\* c.lock.Lock() returns when nobody holds the lock.
LockAvailable(l) == ~l.writer /\ l.readers = 0

\* c.lock.RLock() that does not wait for the writer.
RLockAlwaysAvailable(l) == TRUE

\* c.lock.RLock() returns when no writer holds the lock.
RLockAvailable(l) == ~l.writer

\* The calls of the mutators in the present store with what they return.
MutatorCalls ==
    {[op |-> "AddOrUpdateIngress", arg |-> ing, r |-> AddOrUpdateIngressCall(Store, ing, ord)] :
        ing \in IngressInputs, ord \in MapOrders(virtualServers, transportServers)}
    \cup {[op |-> "DeleteIngress", arg |-> key, r |-> DeleteIngressCall(Store, key, ord)] :
        key \in KeysOf(IngressInputs), ord \in MapOrders(virtualServers, transportServers)}
    \cup {[op |-> "AddOrUpdateVirtualServer", arg |-> vs,
           r |-> AddOrUpdateVirtualServerCall(Store, vs, ord)] :
        vs \in VirtualServerInputs, ord \in MapOrders(virtualServers, transportServers)}
    \cup {[op |-> "DeleteVirtualServer", arg |-> key,
           r |-> DeleteVirtualServerCall(Store, key, ord)] :
        key \in KeysOf(VirtualServerInputs), ord \in MapOrders(virtualServers, transportServers)}
    \cup {[op |-> "AddOrUpdateVirtualServerRoute", arg |-> vsr,
           r |-> AddOrUpdateVirtualServerRouteCall(Store, vsr, ord)] :
        vsr \in VirtualServerRouteInputs, ord \in MapOrders(virtualServers, transportServers)}
    \cup {[op |-> "DeleteVirtualServerRoute", arg |-> key,
           r |-> DeleteVirtualServerRouteCall(Store, key, ord)] :
        key \in KeysOf(VirtualServerRouteInputs),
        ord \in MapOrders(virtualServers, transportServers)}
    \cup {[op |-> "AddOrUpdateTransportServer", arg |-> ts,
           r |-> AddOrUpdateTransportServerCall(Store, ts, ord)] :
        ts \in TransportServerInputs,
        ord \in MapOrders(virtualServers, transportServers)}
    \cup {[op |-> "DeleteTransportServer", arg |-> key,
           r |-> DeleteTransportServerCall(Store, key, ord)] :
        key \in KeysOf(TransportServerInputs),
        ord \in MapOrders(virtualServers, transportServers)}
    \cup {[op |-> "AddOrUpdateGlobalConfiguration", arg |-> gc,
           r |-> AddOrUpdateGlobalConfigurationCall(Store, gc, ord)] :
        gc \in GlobalConfigurationInputs, ord \in MapOrders(virtualServers, transportServers)}
    \cup {[op |-> "DeleteGlobalConfiguration", arg |-> Nil,
           r |-> DeleteGlobalConfigurationCall(Store, ord)] :
        ord \in MapOrders(virtualServers, transportServers)}

\* c.lock.Lock() of a mutator.
MutatorLock ==
    /\ mutator.pc = "idle"
    /\ LockAvailable(lock)
    /\ \E call \in MutatorCalls :
          mutator' = [pc |-> "locked", op |-> call.op, arg |-> call.arg, r |-> call.r]
    /\ lock' = [lock EXCEPT !.writer = TRUE]
    /\ UNCHANGED <<ingresses, virtualServers, virtualServerRoutes, transportServers,
                   globalConfiguration, hosts, listenerHosts, hostProblems,
                   listenerProblems, resources, tsConfigs, isTLSPassthroughEnabled,
                   isCertManagerEnabled, lastCall, changes, problems, winsInput, scenario,
                   reader, metricsReader>>

\* The mutator puts or deletes the object.
MutatorStore ==
    /\ mutator.pc = "locked"
    /\ ingresses' = mutator.r.c.ingresses
    /\ virtualServers' = mutator.r.c.virtualServers
    /\ virtualServerRoutes' = mutator.r.c.virtualServerRoutes
    /\ transportServers' = mutator.r.c.transportServers
    /\ globalConfiguration' = mutator.r.c.globalConfiguration
    /\ mutator' = [mutator EXCEPT !.pc = "stored"]
    /\ UNCHANGED <<hosts, listenerHosts, hostProblems, listenerProblems, resources,
                   tsConfigs, isTLSPassthroughEnabled, isCertManagerEnabled, lastCall,
                   changes, problems, winsInput, scenario, lock, reader, metricsReader>>

\* rebuildListenerHosts of the mutator, if it calls it.
MutatorRebuildListenerHosts ==
    /\ mutator.pc = "stored"
    /\ listenerHosts' = mutator.r.c.listenerHosts
    /\ listenerProblems' = mutator.r.c.listenerProblems
    /\ tsConfigs' = mutator.r.c.tsConfigs
    /\ mutator' = [mutator EXCEPT !.pc = "listenerHosts"]
    /\ UNCHANGED <<ingresses, virtualServers, virtualServerRoutes, transportServers,
                   globalConfiguration, hosts, hostProblems, resources,
                   isTLSPassthroughEnabled, isCertManagerEnabled, lastCall, changes,
                   problems, winsInput, scenario, lock, reader, metricsReader>>

\* rebuildHosts of the mutator, if it calls it.
MutatorRebuildHosts ==
    /\ mutator.pc = "listenerHosts"
    /\ hosts' = mutator.r.c.hosts
    /\ hostProblems' = mutator.r.c.hostProblems
    /\ resources' = mutator.r.c.resources
    /\ mutator' = [mutator EXCEPT !.pc = "hosts"]
    /\ UNCHANGED <<ingresses, virtualServers, virtualServerRoutes, transportServers,
                   globalConfiguration, listenerHosts, listenerProblems, tsConfigs,
                   isTLSPassthroughEnabled, isCertManagerEnabled, lastCall, changes,
                   problems, winsInput, scenario, lock, reader, metricsReader>>

\* The deferred c.lock.Unlock() and the return of the mutator.
MutatorUnlock ==
    /\ mutator.pc = "hosts"
    /\ changes' = mutator.r.changes
    /\ problems' = mutator.r.problems
    /\ lastCall' = [op |-> mutator.op, arg |-> mutator.arg]
    /\ mutator' = [pc |-> "idle"]
    /\ lock' = [lock EXCEPT !.writer = FALSE]
    /\ UNCHANGED <<ingresses, virtualServers, virtualServerRoutes, transportServers,
                   globalConfiguration, hosts, listenerHosts, hostProblems,
                   listenerProblems, resources, tsConfigs, isTLSPassthroughEnabled,
                   isCertManagerEnabled, winsInput, scenario, reader, metricsReader>>

StoreUnchanged ==
    UNCHANGED <<ingresses, virtualServers, virtualServerRoutes, transportServers,
                globalConfiguration, hosts, listenerHosts, hostProblems, listenerProblems,
                resources, tsConfigs, isTLSPassthroughEnabled, isCertManagerEnabled,
                lastCall, changes, problems, winsInput, scenario>>

\* c.lock.RLock() of GetResourcesWithFilter or findResourcesForResourceReference.
ReaderRLock ==
    /\ reader.pc = "idle"
    /\ RLockAvailable(lock)
    /\ lock' = [lock EXCEPT !.readers = @ + 1]
    /\ reader' = [pc |-> "locked"]
    /\ StoreUnchanged /\ UNCHANGED <<mutator, metricsReader>>

\* The loop over c.hosts.
ReaderReadHosts ==
    /\ reader.pc = "locked"
    /\ reader' = [pc |-> "hosts", hosts |-> hosts]
    /\ StoreUnchanged /\ UNCHANGED <<lock, mutator, metricsReader>>

\* The loop over c.listenerHosts.
ReaderReadListenerHosts ==
    /\ reader.pc = "hosts"
    /\ reader' = [pc |-> "listenerHosts", hosts |-> reader.hosts, listenerHosts |-> listenerHosts]
    /\ StoreUnchanged /\ UNCHANGED <<lock, mutator, metricsReader>>

\* The deferred c.lock.RUnlock() and the return.
ReaderRUnlock ==
    /\ reader.pc = "listenerHosts"
    /\ lock' = [lock EXCEPT !.readers = @ - 1]
    /\ reader' = [pc |-> "idle"]
    /\ StoreUnchanged /\ UNCHANGED <<mutator, metricsReader>>

\* GetTransportServerMetrics: the loop over c.hosts.  It takes no lock.
MetricsReadHosts ==
    /\ metricsReader.pc = "idle"
    /\ metricsReader' = [pc |-> "hosts", hosts |-> hosts]
    /\ StoreUnchanged /\ UNCHANGED <<lock, mutator, reader>>

\* GetTransportServerMetrics: the loop over c.listenerHosts.
MetricsReadListenerHosts ==
    /\ metricsReader.pc = "hosts"
    /\ metricsReader' = [pc |-> "listenerHosts", hosts |-> metricsReader.hosts,
                         listenerHosts |-> listenerHosts]
    /\ StoreUnchanged /\ UNCHANGED <<lock, mutator, reader>>

\* GetTransportServerMetrics returns.
MetricsReturn ==
    /\ metricsReader.pc = "listenerHosts"
    /\ metricsReader' = [pc |-> "idle"]
    /\ StoreUnchanged /\ UNCHANGED <<lock, mutator, reader>>

NextConcurrent ==
    \/ MutatorLock
    \/ MutatorStore
    \/ MutatorRebuildListenerHosts
    \/ MutatorRebuildHosts
    \/ MutatorUnlock
    \/ ReaderRLock
    \/ ReaderReadHosts
    \/ ReaderReadListenerHosts
    \/ ReaderRUnlock
    \/ MetricsReadHosts
    \/ MetricsReadListenerHosts
    \/ MetricsReturn

InitConcurrent ==
    /\ InitStore
    /\ isTLSPassthroughEnabled = TRUE
    /\ isCertManagerEnabled = TRUE
    /\ scenario = "concurrent"
    /\ winsInput = NoMetas

SpecConcurrent == InitConcurrent /\ [][NextConcurrent]_vars

\* Wins on its own.  winsInput holds three resources with the names a, b and c, of any
\* kind, creationTimestamp and UID, and the answers of Wins for every pair of them.
WinsResource(kind, name, ts, uid) ==
    CASE kind = ingressKind ->
            NewRegularIngressConfiguration(
                Ingress(name, name, ts, uid, 1, NoAnnotations, "", <<Rule("h1", <<WebPath>>)>>, TRUE, ""))
      [] kind = virtualServerKind ->
            NewVirtualServerConfiguration(
                VirtualServer(name, name, ts, uid, 1, "h1", <<>>, Nil, TRUE, ""), <<>>, <<>>)
      [] kind = transportServerKind ->
            NewTransportServerConfiguration(
                TransportServer(name, name, ts, uid, 1, "h1", TLSPassthroughListenerName,
                                TLSPassthroughListenerProtocol, TRUE, ""))

WinsKinds == {ingressKind, virtualServerKind, transportServerKind}

WinsResources(name) ==
    {WinsResource(kind, name, ts, uid) :
        kind \in WinsKinds, ts \in 1..MaxTime, uid \in 1..MaxUID}

\* The resources of the first creationTimestamp and UID.
FirstWinsResources(name) == {WinsResource(kind, name, 1, 1) : kind \in WinsKinds}

WinsNames == <<"a", "b", "c">>

WinsOf(rs) ==
    [rs |-> rs,
     wins |-> [i \in DOMAIN rs |-> [j \in DOMAIN rs |-> Wins(rs[i], rs[j])]]]

InitWins ==
    /\ InitStore
    /\ isTLSPassthroughEnabled = TRUE
    /\ isCertManagerEnabled = TRUE
    /\ scenario = "wins"
    /\ winsInput \in {WinsOf(<<a, b, c>>) : a \in FirstWinsResources(WinsNames[1]),
                                             b \in FirstWinsResources(WinsNames[2]),
                                             c \in FirstWinsResources(WinsNames[3])}

\* Another resource takes the place of one of the three and Wins is asked again.
CompareResources ==
    /\ \E i \in DOMAIN WinsNames : \E r \in WinsResources(WinsNames[i]) :
          winsInput' = WinsOf([winsInput.rs EXCEPT ![i] = r])
    /\ UNCHANGED <<ingresses, virtualServers, virtualServerRoutes, transportServers,
                   globalConfiguration, hosts, listenerHosts, hostProblems,
                   listenerProblems, resources, tsConfigs, isTLSPassthroughEnabled,
                   isCertManagerEnabled, lastCall, changes, problems, scenario,
                   lock, mutator, reader, metricsReader>>

NextWins == CompareResources

SpecWins == InitWins /\ [][NextWins]_vars


----------------------------------------------------------------------------
(* Properties.                                                             *)

\* The claims of a configuration: <<what is claimed, key with kind of the claimer>>.
ClaimsOf(hs, lhs) ==
    {<<<<"host", h>>, GetKeyWithKind(hs[h])>> : h \in DOMAIN hs}
    \cup {<<<<"listener", k>>, GetKeyWithKind(lhs[k])>> : k \in DOMAIN lhs}

\* The consumer applies one change: Delete R removes every claim of R, AddOrUpdate R
\* replaces the claims of R by those it has in the new state.
ApplyChange(applied, change, newClaims) ==
    LET k == GetKeyWithKind(change.resource)
        without == {p \in applied : p[2] # k}
    IN IF change.op = Delete THEN without
       ELSE without \cup {p \in newClaims : p[2] = k}

Conflicting(applied) == \E p, q \in applied : p[1] = q[1] /\ p[2] # q[2]

\* The applied configuration after the first n changes.
RECURSIVE AppliedAfter(_, _, _, _)
AppliedAfter(applied, chs, newClaims, n) ==
    IF n = 0 THEN applied
    ELSE ApplyChange(AppliedAfter(applied, chs, newClaims, n - 1), chs[n], newClaims)

\* C1: a consumer that starts from the configuration of the state before a mutator call
\* and applies the returned changes one at a time in list order never has a host or a
\* (listener, host) pair claimed by two different resources after any single entry.
C1_NoTransientConflict ==
    [][\A n \in 0..Len(changes') :
          ~Conflicting(AppliedAfter(ClaimsOf(hosts, listenerHosts), changes',
                                    ClaimsOf(hosts', listenerHosts'), n))]_vars

KeysOfChanges(chs) == [i \in DOMAIN chs |-> GetKeyWithKind(chs[i].resource)]

NoDuplicateKeys(chs) ==
    \A i, j \in DOMAIN chs : i # j => GetKeyWithKind(chs[i].resource) # GetKeyWithKind(chs[j].resource)

DeletesFirst(chs) ==
    \A i, j \in DOMAIN chs : chs[i].op = Delete /\ chs[j].op = AddOrUpdate => i < j

\* C2: the change list returned by every mutator call has at most one entry per
\* resource key with kind, and every Delete entry precedes every AddOrUpdate entry.
C2_ChangesUniqueAndDeletesFirst == NoDuplicateKeys(changes) /\ DeletesFirst(changes)

\* The stored objects that claim host h, by key with kind: the non-minion Ingresses with
\* a rule for h, the VirtualServers with host h and, when TLS passthrough is enabled,
\* the TLS-passthrough TransportServers with host h.
IngressClaimants(h) ==
    {getResourceKeyWithKind(ingressKind, ingresses[k]) :
        k \in {x \in DOMAIN ingresses :
                  /\ ~isMinion(ingresses[x])
                  /\ \E i \in DOMAIN ingresses[x].rules : ingresses[x].rules[i].host = h}}

VirtualServerClaimants(h) ==
    {getResourceKeyWithKind(virtualServerKind, virtualServers[k]) :
        k \in {x \in DOMAIN virtualServers : virtualServers[x].host = h}}

TransportServerClaimants(h) ==
    {getResourceKeyWithKind(transportServerKind, transportServers[k]) :
        k \in {x \in DOMAIN transportServers :
                  /\ isTLSPassthroughEnabled
                  /\ transportServers[x].listener.name = TLSPassthroughListenerName
                  /\ transportServers[x].listener.protocol = TLSPassthroughListenerProtocol
                  /\ transportServers[x].host = h}}

StoredClaimants(h) ==
    IngressClaimants(h) \cup VirtualServerClaimants(h) \cup TransportServerClaimants(h)

\* The challenge Ingresses that are lifted into a route of a VirtualServer: cert-manager
\* is enabled, the Ingress has the solver label and some VirtualServer has its host.
ConvertedChallengeIngresses ==
    {getResourceKeyWithKind(ingressKind, ingresses[k]) :
        k \in {x \in DOMAIN ingresses :
                  /\ isCertManagerEnabled
                  /\ ingresses[x].challengeLabel = "true"
                  /\ \E v \in DOMAIN virtualServers :
                        virtualServers[v].host = ingresses[x].rules[1].host}}

ArbitratedClaimants(h) == StoredClaimants(h) \ ConvertedChallengeIngresses

StoredHosts ==
    UNION {{ingresses[k].rules[i].host : i \in DOMAIN ingresses[k].rules} : k \in DOMAIN ingresses}
    \cup {virtualServers[k].host : k \in DOMAIN virtualServers}
    \cup {transportServers[k].host : k \in DOMAIN transportServers}

HasWarning(r, warning) == \E i \in DOMAIN r.warnings : r.warnings[i] = warning

\* Host h has one owner, which is one of claimants, and every other one of claimants
\* has a derived resource with the warning that h is taken.
OneOwnerOthersWarned(h, claimants) ==
    claimants # {} =>
        /\ h \in DOMAIN hosts
        /\ GetKeyWithKind(hosts[h]) \in claimants
        /\ \A k \in claimants \ {GetKeyWithKind(hosts[h])} :
              /\ k \in DOMAIN resources
              /\ HasWarning(resources[k], HostTakenWarning(h))

\* C3 as stated: every host claimed by a stored resource (a rule host of a non-minion
\* Ingress, the host of a VirtualServer, the host of a participating TLS-passthrough
\* TransportServer) has exactly one owner in hosts, and every other stored resource
\* claiming it has a derived resource with the warning "host <h> is taken by another
\* resource".
C3_EveryStoredClaimantOwnsOrIsWarned ==
    \A h \in StoredHosts : OneOwnerOthersWarned(h, StoredClaimants(h))

\* C3 amended: the same, for the claimants other than the challenge Ingresses that are
\* lifted into a route of a VirtualServer, which get no derived resource.
C3_ArbitratedClaimantOwnsOrIsWarned ==
    \A h \in StoredHosts : OneOwnerOthersWarned(h, ArbitratedClaimants(h))

\* Three arbitrated claimants of one host while a challenge Ingress is lifted.
C3_Witness ==
    /\ \E h \in StoredHosts : Cardinality(ArbitratedClaimants(h)) >= 3
    /\ ConvertedChallengeIngresses # {}

\* The stored object with the key with kind k.
StoredObject(k) ==
    CASE k[1] = ingressKind -> ingresses[<<k[2], k[3]>>]
      [] k[1] = virtualServerKind -> virtualServers[<<k[2], k[3]>>]
      [] k[1] = transportServerKind -> transportServers[<<k[2], k[3]>>]

\* meta1 is older than meta2 or, of the same age, has the greater UID.
OlderOrGreaterUID(meta1, meta2) ==
    \/ meta1.creationTimestamp < meta2.creationTimestamp
    \/ /\ meta1.creationTimestamp = meta2.creationTimestamp
       /\ meta1.uid > meta2.uid

\* C4: the owner of each host is the claimant with the earliest creationTimestamp among
\* the stored claimants of the host, ties broken by the greatest UID, whatever the kinds
\* of the claimants and the order in which they were stored.  The claimants are the
\* stored resources that take part in the arbitration of the host (an Ingress lifted
\* into a route of a VirtualServer claims no host).
C4_OwnerIsOldestClaimant ==
    \A h \in StoredHosts :
        ArbitratedClaimants(h) # {} =>
            /\ h \in DOMAIN hosts
            /\ GetKeyWithKind(hosts[h]) \in ArbitratedClaimants(h)
            /\ hosts[h].obj = StoredObject(GetKeyWithKind(hosts[h]))
            /\ \A k \in ArbitratedClaimants(h) \ {GetKeyWithKind(hosts[h])} :
                  OlderOrGreaterUID(hosts[h].obj, StoredObject(k))

\* A host with claimants of the three kinds that a TransportServer owns by its UID, one
\* of the others being of the same age.
C4_Witness ==
    \E h \in DOMAIN hosts :
        /\ {k[1] : k \in ArbitratedClaimants(h)} = {ingressKind, virtualServerKind, transportServerKind}
        /\ hosts[h].kind = transportServerKind
        /\ \E k \in ArbitratedClaimants(h) \ {GetKeyWithKind(hosts[h])} :
              StoredObject(k).creationTimestamp = hosts[h].obj.creationTimestamp

\* The stored TransportServers (keys of the store) that claim <<listener, host>>: not
\* TLS passthrough, and the global configuration has a listener with their listener's
\* name and protocol.
ListenerClaimants(listenerName, host) ==
    {k \in DOMAIN transportServers :
        /\ transportServers[k].listener.protocol # TLSPassthroughListenerProtocol
        /\ transportServers[k].listener.name = listenerName
        /\ transportServers[k].host = host
        /\ globalConfiguration # Nil
        /\ \E i \in DOMAIN globalConfiguration.listeners :
              /\ globalConfiguration.listeners[i].name = listenerName
              /\ globalConfiguration.listeners[i].protocol = transportServers[k].listener.protocol}

StoredListenerKeys ==
    {<<transportServers[k].listener.name, transportServers[k].host>> : k \in DOMAIN transportServers}

HasRejectedListenerProblem(k) ==
    LET kwk == getResourceKeyWithKind(transportServerKind, transportServers[k]) IN
    /\ kwk \in DOMAIN listenerProblems
    /\ listenerProblems[kwk].reason = EventReasonRejected
    /\ listenerProblems[kwk].object = transportServers[k]

\* C5: each (listener, host) pair has at most one TransportServer owner; among the
\* stored non-passthrough TransportServers that reference the same listener of the
\* global configuration (name and protocol) with the same host the owner is the one
\* with the earliest creationTimestamp, ties broken by the greatest UID, and every
\* other one carries the warning "listener <l> and host <h> are taken by another
\* resource" and has a Rejected problem.
C5_ListenerOwnerIsOldestOthersRejected ==
    /\ \A key \in DOMAIN listenerHosts :
          getResourceKey(listenerHosts[key].obj) \in ListenerClaimants(key[1], key[2])
    /\ \A key \in StoredListenerKeys :
          ListenerClaimants(key[1], key[2]) # {} =>
              /\ key \in DOMAIN listenerHosts
              /\ listenerHosts[key].obj = transportServers[getResourceKey(listenerHosts[key].obj)]
              /\ \A k \in ListenerClaimants(key[1], key[2]) \ {getResourceKey(listenerHosts[key].obj)} :
                    /\ OlderOrGreaterUID(listenerHosts[key].obj, transportServers[k])
                    /\ k \in DOMAIN tsConfigs
                    /\ HasWarning(tsConfigs[k], ListenerTakenWarning(key[1], key[2]))
                    /\ HasRejectedListenerProblem(k)

\* Three TransportServers of the same age on one (listener, host) pair.
C5_Witness ==
    \E key \in DOMAIN listenerHosts :
        /\ Cardinality(ListenerClaimants(key[1], key[2])) = 3
        /\ \A k \in ListenerClaimants(key[1], key[2]) :
              transportServers[k].creationTimestamp = listenerHosts[key].obj.creationTimestamp

WinsPairs == {<<i, j>> \in (DOMAIN WinsNames) \X (DOMAIN WinsNames) : i # j}

ExactlyOneWins(i, j) == winsInput.wins[i][j] # winsInput.wins[j][i]

WinsIsTransitive ==
    \A i, j, k \in DOMAIN WinsNames :
        winsInput.wins[i][j] /\ winsInput.wins[j][k] => winsInput.wins[i][k]

SameAgeAndUID(i, j) ==
    /\ winsInput.rs[i].obj.creationTimestamp = winsInput.rs[j].obj.creationTimestamp
    /\ winsInput.rs[i].obj.uid = winsInput.rs[j].obj.uid

\* C6 as stated: Wins is a strict total order over resources: of any two distinct
\* resources exactly one wins over the other, and Wins is transitive, for all
\* creationTimestamps, UIDs and kinds.
C6_WinsIsStrictTotalOrder ==
    /\ \A p \in WinsPairs : ExactlyOneWins(p[1], p[2])
    /\ WinsIsTransitive

\* C6 amended: of two resources that differ in creationTimestamp or UID exactly one wins
\* over the other, of two resources that have both in common neither wins, and Wins
\* is transitive.
C6_WinsIsStrictOrderTotalOnDistinctUIDs ==
    /\ \A p \in WinsPairs :
          IF SameAgeAndUID(p[1], p[2])
          THEN ~winsInput.wins[p[1]][p[2]] /\ ~winsInput.wins[p[2]][p[1]]
          ELSE ExactlyOneWins(p[1], p[2])
    /\ WinsIsTransitive

\* Three resources of three kinds and the same age: the first wins over the second by
\* its UID and the second has the UID of the third.
C6_Witness ==
    /\ scenario = "wins"
    /\ {winsInput.rs[i].kind : i \in DOMAIN WinsNames} = WinsKinds
    /\ \A i \in DOMAIN WinsNames : winsInput.rs[i].obj.creationTimestamp = 1
    /\ winsInput.wins[1][2]
    /\ SameAgeAndUID(2, 3)

\* The call of lastCall made once more, in the state it has led to.
SecondCall(ord) ==
    CASE lastCall.op = "AddOrUpdateIngress" -> AddOrUpdateIngressCall(Store, lastCall.arg, ord)
      [] lastCall.op = "DeleteIngress" -> DeleteIngressCall(Store, lastCall.arg, ord)
      [] lastCall.op = "AddOrUpdateVirtualServer" -> AddOrUpdateVirtualServerCall(Store, lastCall.arg, ord)
      [] lastCall.op = "DeleteVirtualServer" -> DeleteVirtualServerCall(Store, lastCall.arg, ord)
      [] lastCall.op = "AddOrUpdateVirtualServerRoute" ->
            AddOrUpdateVirtualServerRouteCall(Store, lastCall.arg, ord)
      [] lastCall.op = "DeleteVirtualServerRoute" ->
            DeleteVirtualServerRouteCall(Store, lastCall.arg, ord)
      [] lastCall.op = "AddOrUpdateTransportServer" ->
            AddOrUpdateTransportServerCall(Store, lastCall.arg, ord)
      [] lastCall.op = "DeleteTransportServer" -> DeleteTransportServerCall(Store, lastCall.arg, ord)
      [] lastCall.op = "AddOrUpdateGlobalConfiguration" ->
            AddOrUpdateGlobalConfigurationCall(Store, lastCall.arg, ord)
      [] lastCall.op = "DeleteGlobalConfiguration" -> DeleteGlobalConfigurationCall(Store, ord)

IsMutatorCall == lastCall.op # "NewConfiguration"

\* The last call was an AddOrUpdate of an object of the correct class that its validator
\* rejects.
FailedValidation ==
    /\ lastCall.op \in {"AddOrUpdateIngress", "AddOrUpdateVirtualServer",
                        "AddOrUpdateVirtualServerRoute", "AddOrUpdateTransportServer"}
    /\ lastCall.arg.class
    /\ lastCall.arg.err # ""

\* C7 as stated: after every mutator call, the identical call made a second time
\* returns an empty change list and an empty problem list.
C7_SecondCallReturnsNothing ==
    IsMutatorCall =>
        \A ord \in MapOrders(virtualServers, transportServers) :
            /\ SecondCall(ord).changes = <<>>
            /\ SecondCall(ord).problems = <<>>

RejectedErrorsFor(probs, obj) ==
    {i \in DOMAIN probs :
        /\ probs[i].isError
        /\ probs[i].reason = EventReasonRejected
        /\ probs[i].object = obj}

\* C7 amended: after every mutator call, the identical call made a second time returns
\* an empty change list and, unless it is an AddOrUpdate of an object of the correct
\* class that fails validation, an empty problem list; the second call of such an
\* AddOrUpdate returns the one problem of the failed validation again.
C7_SecondCallReturnsOnlyValidationError ==
    IsMutatorCall =>
        \A ord \in MapOrders(virtualServers, transportServers) :
            /\ SecondCall(ord).changes = <<>>
            /\ IF FailedValidation
               THEN /\ Len(SecondCall(ord).problems) = 1
                    /\ RejectedErrorsFor(SecondCall(ord).problems, lastCall.arg) = {1}
               ELSE SecondCall(ord).problems = <<>>

\* A call of an object that passes validation has returned changes and problems.
C7_Witness ==
    /\ IsMutatorCall
    /\ ~FailedValidation
    /\ changes # <<>>
    /\ problems # <<>>

\* The map of the store that the last AddOrUpdate call is for, and the kind of its keys.
StoreMapOfLastCall ==
    CASE lastCall.op = "AddOrUpdateIngress" -> ingresses
      [] lastCall.op = "AddOrUpdateVirtualServer" -> virtualServers
      [] lastCall.op = "AddOrUpdateVirtualServerRoute" -> virtualServerRoutes
      [] lastCall.op = "AddOrUpdateTransportServer" -> transportServers

KindOfLastCall ==
    CASE lastCall.op = "AddOrUpdateIngress" -> ingressKind
      [] lastCall.op = "AddOrUpdateVirtualServer" -> virtualServerKind
      [] lastCall.op = "AddOrUpdateVirtualServerRoute" -> virtualServerRouteKind
      [] lastCall.op = "AddOrUpdateTransportServer" -> transportServerKind

OwnChanges ==
    {i \in DOMAIN changes :
        GetKeyWithKind(changes[i].resource) = getResourceKeyWithKind(KindOfLastCall, lastCall.arg)}

ChangesWithError == {i \in DOMAIN changes : changes[i].error # ""}

ErrorProblems == {i \in DOMAIN problems : problems[i].isError}

\* C8: after AddOrUpdateIngress, AddOrUpdateVirtualServer, AddOrUpdateVirtualServerRoute
\* or AddOrUpdateTransportServer of an object of the correct class that fails validation
\* the object is not in the store and the failure is reported once: if the changes have
\* an entry for the key of the object, exactly one such entry has the validation message
\* as its error and no problem is an error; otherwise exactly one problem is an error,
\* with reason Rejected, for the object.
C8_ValidationFailureReportedOnce ==
    FailedValidation =>
        /\ getResourceKey(lastCall.arg) \notin DOMAIN StoreMapOfLastCall
        /\ IF OwnChanges # {}
           THEN /\ Cardinality(ChangesWithError) = 1
                /\ ChangesWithError \subseteq OwnChanges
                /\ \A i \in ChangesWithError : changes[i].error = lastCall.arg.err
                /\ ErrorProblems = {}
           ELSE /\ ChangesWithError = {}
                /\ Cardinality(ErrorProblems) = 1
                /\ ErrorProblems = RejectedErrorsFor(problems, lastCall.arg)

\* The failure of the validation is attached to a change of the object.
C8_Witness == FailedValidation /\ OwnChanges # {}

\* What a call leaves and returns, as far as C9 compares it.
Outcome(r) ==
    <<r.c.ingresses, r.c.virtualServers, r.c.virtualServerRoutes, r.c.transportServers,
      r.c.hosts, r.c.listenerHosts, r.c.hostProblems, r.c.listenerProblems,
      r.changes, r.problems>>

NothingReturned(r) == r.changes = <<>> /\ r.problems = <<>>

WrongClass(S) == {o \in S : ~o.class}

\* C9: in every reachable state AddOrUpdate<Kind> of an object of the wrong class leaves
\* the same store, hosts, listenerHosts and problem maps and returns the same changes
\* and problems as Delete<Kind> of its key; both return nothing if the key is not
\* stored.
C9_WrongClassIsDelete ==
    \A ord \in MapOrders(virtualServers, transportServers) :
        /\ \A o \in WrongClass(IngressInputs) :
              /\ Outcome(AddOrUpdateIngressCall(Store, o, ord))
                     = Outcome(DeleteIngressCall(Store, getResourceKey(o), ord))
              /\ getResourceKey(o) \notin DOMAIN ingresses
                     => NothingReturned(AddOrUpdateIngressCall(Store, o, ord))
        /\ \A o \in WrongClass(VirtualServerInputs) :
              /\ Outcome(AddOrUpdateVirtualServerCall(Store, o, ord))
                     = Outcome(DeleteVirtualServerCall(Store, getResourceKey(o), ord))
              /\ getResourceKey(o) \notin DOMAIN virtualServers
                     => NothingReturned(AddOrUpdateVirtualServerCall(Store, o, ord))
        /\ \A o \in WrongClass(VirtualServerRouteInputs) :
              /\ Outcome(AddOrUpdateVirtualServerRouteCall(Store, o, ord))
                     = Outcome(DeleteVirtualServerRouteCall(Store, getResourceKey(o), ord))
              /\ getResourceKey(o) \notin DOMAIN virtualServerRoutes
                     => NothingReturned(AddOrUpdateVirtualServerRouteCall(Store, o, ord))
        /\ \A o \in WrongClass(TransportServerInputs) :
              /\ Outcome(AddOrUpdateTransportServerCall(Store, o, ord))
                     = Outcome(DeleteTransportServerCall(Store, getResourceKey(o), ord))
              /\ getResourceKey(o) \notin DOMAIN transportServers
                     => NothingReturned(AddOrUpdateTransportServerCall(Store, o, ord))

\* An AddOrUpdate of an object of the wrong class has evicted the stored object.
C9_Witness ==
    /\ lastCall.op \in {"AddOrUpdateIngress", "AddOrUpdateVirtualServer",
                        "AddOrUpdateTransportServer"}
    /\ ~lastCall.arg.class
    /\ \E i \in DOMAIN changes : changes[i].op = Delete

\* The map of the store that a Delete call is for, before the call.
DeletedFrom(op) ==
    CASE op = "DeleteIngress" -> ingresses
      [] op = "DeleteVirtualServer" -> virtualServers
      [] op = "DeleteVirtualServerRoute" -> virtualServerRoutes
      [] op = "DeleteTransportServer" -> transportServers

\* C10: DeleteIngress, DeleteVirtualServer, DeleteVirtualServerRoute and
\* DeleteTransportServer of a key that is not in the map of the store return no changes
\* and no problems and leave the maps of the store, hosts, listenerHosts, hostProblems
\* and listenerProblems as they are.
C10_DeleteOfUnknownKeyChangesNothing ==
    [][(/\ lastCall'.op \in {"DeleteIngress", "DeleteVirtualServer",
                             "DeleteVirtualServerRoute", "DeleteTransportServer"}
        /\ lastCall'.arg \notin DOMAIN DeletedFrom(lastCall'.op))
       => /\ changes' = <<>>
          /\ problems' = <<>>
          /\ UNCHANGED <<ingresses, virtualServers, virtualServerRoutes, transportServers,
                         hosts, listenerHosts, hostProblems, listenerProblems>>]_vars

\* A Delete of the key of no object, with hosts and listeners owned.
C10_Witness ==
    /\ lastCall.op \in {"DeleteIngress", "DeleteVirtualServer",
                        "DeleteVirtualServerRoute", "DeleteTransportServer"}
    /\ lastCall.arg = UnknownKey
    /\ hosts # EmptyMap
    /\ listenerHosts # EmptyMap

\* The answers of the public reads in the store c, for every filter and for the
\* reference checkers that answer true for one delivered object.
ResourceFilters == [Ingresses : BOOLEAN, VirtualServers : BOOLEAN, TransportServers : BOOLEAN]

ReferenceCheckers ==
    {{o} : o \in IngressInputs \cup VirtualServerInputs \cup VirtualServerRouteInputs
                    \cup TransportServerInputs}

ReadsOf(c) ==
    [resources |-> GetResources(c),
     filtered |-> [f \in ResourceFilters |-> GetResourcesWithFilter(c, f)],
     found |-> [checker \in ReferenceCheckers |-> findResourcesForResourceReference(c, checker)],
     metrics |-> GetTransportServerMetrics(c),
     globalConfiguration |-> GetGlobalConfiguration(c)]

OrdersOf(c) == MapOrders(c.virtualServers, c.transportServers)

\* The stores that AddOrUpdate<Kind>(o) followed by Delete<Kind>(key(o)) can leave.
AfterAddThenDelete(kind, o) ==
    LET key == getResourceKey(o)
        added ==
            CASE kind = ingressKind ->
                    {AddOrUpdateIngressCall(Store, o, ord).c : ord \in OrdersOf(Store)}
              [] kind = virtualServerKind ->
                    {AddOrUpdateVirtualServerCall(Store, o, ord).c :
                        ord \in MapOrders(StoreObject(virtualServers, o), transportServers)}
              [] kind = virtualServerRouteKind ->
                    {AddOrUpdateVirtualServerRouteCall(Store, o, ord).c : ord \in OrdersOf(Store)}
              [] kind = transportServerKind ->
                    {AddOrUpdateTransportServerCall(Store, o, ord).c :
                        ord \in MapOrders(virtualServers, StoreObject(transportServers, o))}
        deleted(c) ==
            CASE kind = ingressKind -> {DeleteIngressCall(c, key, ord).c : ord \in OrdersOf(c)}
              [] kind = virtualServerKind ->
                    {DeleteVirtualServerCall(c, key, ord).c : ord \in OrdersOf(c)}
              [] kind = virtualServerRouteKind ->
                    {DeleteVirtualServerRouteCall(c, key, ord).c : ord \in OrdersOf(c)}
              [] kind = transportServerKind ->
                    {DeleteTransportServerCall(c, key, ord).c : ord \in OrdersOf(c)}
    IN UNION {deleted(c) : c \in added}

InputsOfKind(kind) ==
    CASE kind = ingressKind -> IngressInputs
      [] kind = virtualServerKind -> VirtualServerInputs
      [] kind = virtualServerRouteKind -> VirtualServerRouteInputs
      [] kind = transportServerKind -> TransportServerInputs

StoreMapOfKind(kind) ==
    CASE kind = ingressKind -> ingresses
      [] kind = virtualServerKind -> virtualServers
      [] kind = virtualServerRouteKind -> virtualServerRoutes
      [] kind = transportServerKind -> transportServers

StoredKinds == {ingressKind, virtualServerKind, virtualServerRouteKind, transportServerKind}

\* C11: in every reachable state, for every object o of any kind whose key is not
\* stored, AddOrUpdate<Kind>(o) followed by Delete<Kind>(key(o)) leaves a store whose
\* public reads (GetResources, GetResourcesWithFilter for every filter, the Find*
\* queries, GetTransportServerMetrics, GetGlobalConfiguration) return what they
\* returned before the AddOrUpdate, whatever order the maps are ranged over.
C11_AddThenDeleteRestoresReads ==
    \A kind \in StoredKinds : \A o \in InputsOfKind(kind) :
        getResourceKey(o) \notin DOMAIN StoreMapOfKind(kind) =>
            \A c \in AfterAddThenDelete(kind, o) : ReadsOf(c) = ReadsOf(Store)

\* What rebuildHosts derives from the contents of the store c.
DerivedOf(rh) == [hosts |-> rh.hosts, resources |-> rh.resources, hostProblems |-> rh.hostProblems]

\* C12: the hosts map, the derived resources and hostProblems are a function of the
\* stored objects and the global configuration: whichever history led to the store,
\* and whatever order the maps are ranged over, a rebuild of the hosts from the
\* present contents yields the hosts, resources and hostProblems the store holds.
C12_DerivedStateIsFunctionOfStore ==
    \A ord \in OrdersOf(Store) : DerivedOf(rebuildHosts(Store, ord)) = DerivedOf(Store)

\* The problems of the map new that the map old lacks or holds with another isError,
\* reason or message.
NewOrChanged(old, new) ==
    {new[k] : k \in {k \in DOMAIN new :
                        \/ k \notin DOMAIN old
                        \/ new[k].isError # old[k].isError
                        \/ new[k].reason # old[k].reason
                        \/ new[k].message # old[k].message}}

ReturnedWarnings(probs) == {probs[i] : i \in {i \in DOMAIN probs : ~probs[i].isError}}

\* C13: the problems a mutator returns that are not validation errors are exactly the
\* entries of the new hostProblems and listenerProblems that the maps of before the call
\* lacked or held with another isError, reason or message: a problem that disappears
\* and a problem that stays as it was are not returned.
C13_ReturnedProblemsAreTheNewOrChanged ==
    [][ReturnedWarnings(problems') =
           NewOrChanged(hostProblems, hostProblems')
               \cup NewOrChanged(listenerProblems, listenerProblems')]_vars

\* A call has returned a changed problem and kept silent about a host problem and a
\* listener problem that stay as they were.
C13_Witness ==
    /\ ReturnedWarnings(problems) # {}
    /\ \E k \in DOMAIN hostProblems : hostProblems[k] \notin ReturnedWarnings(problems)
    /\ \E k \in DOMAIN listenerProblems : listenerProblems[k] \notin ReturnedWarnings(problems)

\* C14: no read is in its body while a mutator is in its critical section: when the
\* mutator holds the exclusive lock, neither the reads that take the shared lock nor
\* GetTransportServerMetrics are between their first and their last statement.
C14_NoReadInsideMutatorCriticalSection ==
    mutator.pc # "idle" => reader.pc = "idle" /\ metricsReader.pc = "idle"

\* C15: what a read that takes the shared lock has taken from c.hosts and from
\* c.listenerHosts are the two maps of one committed state: while the read is in its
\* body no mutator is between its lock and its return, and the maps the read has taken
\* are the maps of the store.
C15_ReaderSeesOneCommittedState ==
    /\ reader.pc # "idle" => mutator.pc = "idle"
    /\ reader.pc \in {"hosts", "listenerHosts"} => reader.hosts = hosts
    /\ reader.pc = "listenerHosts" => reader.listenerHosts = listenerHosts

\* The read has taken both maps after a mutator that rebuilt both, and both hold
\* a TransportServer.
C15_Witness ==
    /\ reader.pc = "listenerHosts"
    /\ lastCall.op \in {"AddOrUpdateTransportServer", "DeleteTransportServer",
                        "AddOrUpdateGlobalConfiguration", "DeleteGlobalConfiguration"}
    /\ \E h \in DOMAIN reader.hosts : reader.hosts[h].kind = transportServerKind
    /\ reader.listenerHosts # EmptyMap

StoredMinions == {key \in DOMAIN ingresses : isMinion(ingresses[key])}

HasOrphanProblem(probs, ing) ==
    LET k == getResourceKeyWithKind(ingressKind, ing) IN
    k \in DOMAIN probs /\ probs[k].reason = EventReasonNoIngressMasterFound

OwnerIsMaster(hs, h) ==
    h \in DOMAIN hs /\ hs[h].kind = ingressKind /\ hs[h].isMaster

IsMinionOf(ing, master) ==
    \E i \in DOMAIN master.minions : master.minions[i].ingress = ing

\* Every stored minion has the problem NoIngressMasterFound exactly if the owner of
\* its host is absent or is not a master, and is a minion of the master that owns it.
MinionsOrphanOrMerged ==
    \A key \in StoredMinions :
        LET ing == ingresses[key]
            h == ing.rules[1].host
        IN /\ HasOrphanProblem(hostProblems, ing) <=> ~OwnerIsMaster(hosts, h)
           /\ OwnerIsMaster(hosts, h) => IsMinionOf(ing, hosts[h])

\* The call was AddOrUpdateIngress of a master that is stored after it.
MasterAdded ==
    /\ lastCall'.op = "AddOrUpdateIngress"
    /\ ~isMinion(lastCall'.arg) /\ isMaster(lastCall'.arg)
    /\ getResourceKey(lastCall'.arg) \in DOMAIN ingresses'
    /\ ingresses'[getResourceKey(lastCall'.arg)] = lastCall'.arg

\* The stored minions that were orphans before the call and are of the host of its master.
OrphansOfAddedMaster ==
    {key \in StoredMinions :
        /\ HasOrphanProblem(hostProblems, ingresses[key])
        /\ ingresses[key].rules[1].host = lastCall'.arg.rules[1].host}

MasterAdoptsOrphans ==
    MasterAdded =>
        \A key \in OrphansOfAddedMaster :
            LET k == getResourceKeyWithKind(ingressKind, lastCall'.arg) IN
            /\ k \in DOMAIN resources'
            /\ IsMinionOf(ingresses[key], resources'[k])
            /\ \A i \in DOMAIN problems' :
                  ~(problems'[i].reason = EventReasonNoIngressMasterFound
                    /\ problems'[i].object = ingresses[key])

\* C16: after any sequence of mutator calls every stored minion has the problem
\* NoIngressMasterFound in hostProblems exactly if the owner of its host is absent or
\* is not a master IngressConfiguration, and is in the Minions of the master that owns
\* its host; and AddOrUpdateIngress of a master for the host of an orphan minion puts
\* the minion in the Minions of the master and returns no NoIngressMasterFound problem
\* for it.
C16_MinionsOrphanOrMerged == []MinionsOrphanOrMerged /\ [][MasterAdoptsOrphans]_vars

\* A master has been added for the host of a stored minion and owns the host.
C16_Witness ==
    /\ lastCall.op = "AddOrUpdateIngress" /\ isMaster(lastCall.arg)
    /\ \E key \in StoredMinions :
          LET h == ingresses[key].rules[1].host IN
          OwnerIsMaster(hosts, h) /\ hosts[h].obj = lastCall.arg
    /\ changes # <<>>

HasVsrProblem(vsr, reason) ==
    LET k == getResourceKeyWithKind(virtualServerRouteKind, vsr) IN
    k \in DOMAIN hostProblems /\ hostProblems[k].reason = reason

HasNoProblem(vsr) ==
    getResourceKeyWithKind(virtualServerRouteKind, vsr) \notin DOMAIN hostProblems

OwnerIsVirtualServer(h) == h \in DOMAIN hosts /\ hosts[h].kind = virtualServerKind

InRoutesOf(vsr, r) == \E i \in DOMAIN r.routes : r.routes[i] = vsr

\* The VirtualServerRoute is in the routes of the VirtualServer that owns its host.
Active(vsr) ==
    /\ OwnerIsVirtualServer(vsr.host)
    /\ InRoutesOf(vsr, hosts[vsr.host])
    /\ HasNoProblem(vsr)

\* No VirtualServer owns the host of the VirtualServerRoute.
Orphan(vsr) ==
    /\ ~OwnerIsVirtualServer(vsr.host)
    /\ HasVsrProblem(vsr, EventReasonNoVirtualServerFound)

\* The VirtualServer that owns the host does not have the VirtualServerRoute.
Ignored(vsr) ==
    /\ OwnerIsVirtualServer(vsr.host)
    /\ ~InRoutesOf(vsr, hosts[vsr.host])
    /\ HasVsrProblem(vsr, EventReasonIgnored)

\* C17: after any sequence of mutator calls every stored VirtualServerRoute is in the
\* routes of the VirtualServer that owns its host and has no problem, or the owner of
\* its host is absent or is not a VirtualServer and it has the problem
\* NoVirtualServerFound, or the owner of its host is a VirtualServer whose routes do
\* not contain it and it has the problem Ignored.
C17_RouteIsActiveOrphanOrIgnored ==
    \A key \in DOMAIN virtualServerRoutes :
        LET vsr == virtualServerRoutes[key] IN
        Active(vsr) \/ Orphan(vsr) \/ Ignored(vsr)

HasSolverLabel(ing) == ing.challengeLabel = "true"

VirtualServersOfHost(h) == {key \in DOMAIN virtualServers : virtualServers[key].host = h}

\* The VirtualServerRoute a challenge Ingress is lifted into.
SynthesisedRoute(ing) ==
    [kind |-> virtualServerRouteKind, ns |-> ing.ns, name |-> ing.name, generation |-> 0,
     host |-> ing.rules[1].host,
     upstreams |-> << [name |-> "challenge", service |-> ing.rules[1].paths[1].service,
                       port |-> ing.rules[1].paths[1].port] >>,
     subroutes |-> << [path |-> ing.rules[1].paths[1].path,
                       action |-> [pass |-> "challenge"]] >>]

IsSynthesised(route) == "upstreams" \in DOMAIN route

HasIngressConfiguration(ing) == getResourceKeyWithKind(ingressKind, ing) \in DOMAIN resources

ClaimsNoHost(ing) ==
    \A h \in DOMAIN hosts : GetKeyWithKind(hosts[h]) # getResourceKeyWithKind(ingressKind, ing)

\* The Ingress is lifted into the routes of every VirtualServer of its host.
Lifted(ing) ==
    /\ ~HasIngressConfiguration(ing)
    /\ ClaimsNoHost(ing)
    /\ \A key \in VirtualServersOfHost(ing.rules[1].host) :
          LET r == resources[getResourceKeyWithKind(virtualServerKind, virtualServers[key])] IN
          \E i \in DOMAIN r.routes : r.routes[i] = SynthesisedRoute(ing)

\* With cert-manager disabled the label changes nothing: the Ingress, unless it is a
\* minion, has its IngressConfiguration and no VirtualServer has a synthesised route.
LabelHasNoEffect ==
    /\ \A key \in DOMAIN ingresses :
          HasSolverLabel(ingresses[key]) /\ ~isMinion(ingresses[key])
              => HasIngressConfiguration(ingresses[key])
    /\ \A k \in DOMAIN resources :
          resources[k].kind = virtualServerKind
              => \A i \in DOMAIN resources[k].routes : ~IsSynthesised(resources[k].routes[i])

\* The labelled Ingresses (the minions among them or not) that have the host of a
\* stored VirtualServer are lifted.
ChallengesLifted(minionsToo) ==
    IF isCertManagerEnabled
    THEN \A key \in DOMAIN ingresses :
            LET ing == ingresses[key] IN
            /\ HasSolverLabel(ing)
            /\ minionsToo \/ ~isMinion(ing)
            /\ VirtualServersOfHost(ing.rules[1].host) # {}
            => Lifted(ing)
    ELSE LabelHasNoEffect

HasChangeFor(chs, op, keyWithKind) ==
    \E i \in DOMAIN chs : chs[i].op = op /\ GetKeyWithKind(chs[i].resource) = keyWithKind

\* The challenge Ingress the step adds or deletes, or Nil.
ChallengeAddedOrDeleted ==
    IF /\ lastCall'.op = "AddOrUpdateIngress"
       /\ getResourceKey(lastCall'.arg) \in DOMAIN ingresses'
       /\ ingresses'[getResourceKey(lastCall'.arg)] = lastCall'.arg
       /\ HasSolverLabel(lastCall'.arg)
    THEN lastCall'.arg
    ELSE IF /\ lastCall'.op = "DeleteIngress"
            /\ lastCall'.arg \in DOMAIN ingresses
            /\ HasSolverLabel(ingresses[lastCall'.arg])
    THEN ingresses[lastCall'.arg]
    ELSE Nil

\* Adding or deleting a challenge Ingress returns an AddOrUpdate change for every
\* stored VirtualServer of its host.
ChallengeChangesVirtualServers ==
    isCertManagerEnabled /\ ChallengeAddedOrDeleted # Nil =>
        \A key \in VirtualServersOfHost(ChallengeAddedOrDeleted.rules[1].host) :
            HasChangeFor(changes', AddOrUpdate,
                         getResourceKeyWithKind(virtualServerKind, virtualServers[key]))

\* The same for an Ingress that is not a minion and was not stored before it is added,
\* and for the VirtualServer that owns the host.
ChallengeChangesOwningVirtualServer ==
    /\ isCertManagerEnabled
    /\ ChallengeAddedOrDeleted # Nil
    /\ ~isMinion(ChallengeAddedOrDeleted)
    /\ lastCall'.op = "AddOrUpdateIngress"
            => getResourceKey(lastCall'.arg) \notin DOMAIN ingresses
    => \A key \in VirtualServersOfHost(ChallengeAddedOrDeleted.rules[1].host) :
          LET h == virtualServers[key].host
              k == getResourceKeyWithKind(virtualServerKind, virtualServers[key])
          IN h \in DOMAIN hosts /\ GetKeyWithKind(hosts[h]) = k
                 => HasChangeFor(changes', AddOrUpdate, k)

\* C18 as it is stated: with cert-manager enabled, every stored Ingress with the solver
\* label that has the host of a stored VirtualServer has no IngressConfiguration, claims
\* no host and is in the routes of the VirtualServer as a synthesised VirtualServerRoute
\* (upstream challenge with the service and port of its first path, one subroute with
\* its first path and the action pass challenge), and adding or deleting such an
\* Ingress returns an AddOrUpdate change for the VirtualServer; with cert-manager
\* disabled the label has no effect.
C18_ChallengeLiftedAndVirtualServerChanged ==
    []ChallengesLifted(TRUE) /\ [][ChallengeChangesVirtualServers]_vars

\* C18 for the Ingresses that are not minions, with the change returned for the
\* VirtualServer that owns the host when an Ingress that was not stored is added or a
\* stored one is deleted.
C18_ChallengeLiftedAndOwningVirtualServerChanged ==
    []ChallengesLifted(FALSE) /\ [][ChallengeChangesOwningVirtualServer]_vars

\* The challenge Ingress has been added after the VirtualServer that owns the host, and
\* the change for the VirtualServer is returned.
C18_Witness ==
    /\ isCertManagerEnabled
    /\ lastCall.op = "AddOrUpdateIngress" /\ HasSolverLabel(lastCall.arg)
    /\ ~isMinion(lastCall.arg)
    /\ "h1" \in DOMAIN hosts /\ hosts["h1"].kind = virtualServerKind
    /\ \E i \in DOMAIN hosts["h1"].routes : hosts["h1"].routes[i] = SynthesisedRoute(lastCall.arg)
    /\ HasChangeFor(changes, AddOrUpdate, GetKeyWithKind(hosts["h1"]))

\* The Ingress owns the host or its IngressConfiguration carries the warning that the
\* host is taken.
TakesPartInArbitration(ing, h) ==
    LET k == getResourceKeyWithKind(ingressKind, ing) IN
    /\ HasIngressConfiguration(ing)
    /\ h \in DOMAIN hosts
    /\ GetKeyWithKind(hosts[h]) = k \/ HasWarning(resources[k], HostTakenWarning(h))

\* C19: with cert-manager enabled, a stored Ingress with the solver label (not a minion)
\* whose host is owned in the hosts map by a resource that is not a VirtualServer, or by
\* nobody, is processed as an ordinary Ingress: it has an IngressConfiguration and takes
\* part in the arbitration of the host.
C19_ChallengeConvertedOnlyIfVirtualServerOwnsHost ==
    isCertManagerEnabled =>
        \A key \in DOMAIN ingresses :
            LET ing == ingresses[key]
                h == ing.rules[1].host
            IN HasSolverLabel(ing) /\ ~isMinion(ing) /\ ~OwnerIsVirtualServer(h)
                   => TakesPartInArbitration(ing, h)

\* The TransportServer has a derived resource of the host side that owns its host or
\* carries the warning that the host is taken.
ClaimsItsHost(ts) ==
    LET k == getResourceKeyWithKind(transportServerKind, ts) IN
    /\ k \in DOMAIN resources
    /\ ts.host \in DOMAIN hosts
    /\ GetKeyWithKind(hosts[ts.host]) = k \/ HasWarning(resources[k], HostTakenWarning(ts.host))

IsTLSPassthrough(ts) ==
    /\ ts.listener.name = TLSPassthroughListenerName
    /\ ts.listener.protocol = TLSPassthroughListenerProtocol

\* C20: a stored TransportServer takes part in the arbitration of its host exactly if
\* TLS Passthrough is enabled and its listener has the name tls-passthrough and the
\* protocol TLS_PASSTHROUGH; with TLS Passthrough disabled no TransportServer is in
\* the hosts map.
C20_OnlyTLSPassthroughTransportServersClaimHosts ==
    /\ \A key \in DOMAIN transportServers :
          LET ts == transportServers[key] IN
          ClaimsItsHost(ts) <=> (isTLSPassthroughEnabled /\ IsTLSPassthrough(ts))
    /\ ~isTLSPassthroughEnabled =>
          \A h \in DOMAIN hosts : hosts[h].kind # transportServerKind


NoGlobalConfigurationWarning ==
    [msg |-> "Listeners defined, but no GlobalConfiguration is deployed", args |-> <<>>]

GlobalConfigurationCalls == {"AddOrUpdateGlobalConfiguration", "DeleteGlobalConfiguration"}

\* The VirtualServer that owned host h before the step owns it after the step with the
\* same namespace, name, generation and routes and with another HTTPPort, HTTPSPort,
\* HTTPIPv4 or HTTPIPv6.
ResolvedListenerChanged(h) ==
    /\ h \in DOMAIN hosts /\ h \in DOMAIN hosts'
    /\ hosts[h].kind = virtualServerKind /\ hosts'[h].kind = virtualServerKind
    /\ hosts[h].obj.host = h
    /\ VirtualServerIsEqual(hosts[h], hosts'[h])
    /\ \/ hosts[h].httpPort # hosts'[h].httpPort
       \/ hosts[h].httpsPort # hosts'[h].httpsPort
       \/ hosts[h].httpIPv4 # hosts'[h].httpIPv4
       \/ hosts[h].httpIPv6 # hosts'[h].httpIPv6

ChangesFor(chs, keyWithKind) ==
    {i \in DOMAIN chs : GetKeyWithKind(chs[i].resource) = keyWithKind}

GlobalConfigurationChangeIsReported ==
    lastCall'.op \in GlobalConfigurationCalls =>
        \A h \in DOMAIN hosts :
            ResolvedListenerChanged(h) =>
                /\ Cardinality(ChangesFor(changes', GetKeyWithKind(hosts[h]))) = 1
                /\ \A i \in ChangesFor(changes', GetKeyWithKind(hosts[h])) :
                       /\ changes'[i].op = AddOrUpdate
                       /\ changes'[i].resource = hosts'[h]
                       /\ lastCall'.op = "DeleteGlobalConfiguration" =>
                              /\ changes'[i].resource.httpPort = 0
                              /\ changes'[i].resource.httpIPv4 = ""
                              /\ changes'[i].resource.httpIPv6 = ""
                              /\ HasWarning(changes'[i].resource, NoGlobalConfigurationWarning)

\* C21: when AddOrUpdateGlobalConfiguration or DeleteGlobalConfiguration changes the
\* resolved HTTPPort, HTTPSPort, HTTPIPv4 or HTTPIPv6 of a VirtualServer that owns its
\* host, the returned changes hold exactly one entry for that VirtualServer, an
\* AddOrUpdate that carries the new values; after DeleteGlobalConfiguration the entry
\* has HTTPPort 0, empty HTTPIPv4 and HTTPIPv6 and the warning that no
\* GlobalConfiguration is deployed.
C21_GlobalConfigurationChangeIsReported ==
    [][GlobalConfigurationChangeIsReported]_vars

\* DeleteGlobalConfiguration has returned an AddOrUpdate of a VirtualServer with
\* HTTPPort 0 and the warning.
C21_Witness ==
    /\ lastCall.op = "DeleteGlobalConfiguration"
    /\ \E i \in DOMAIN changes :
           /\ changes[i].op = AddOrUpdate
           /\ changes[i].resource.kind = virtualServerKind
           /\ changes[i].resource.httpPort = 0
           /\ HasWarning(changes[i].resource, NoGlobalConfigurationWarning)


\* The stored global configuration has a listener of the name with protocol HTTP and
\* the ssl flag, and port, ipv4 and ipv6 are its port and addresses.
ResolvedFrom(vs, listenerName, isSSL, port, ipv4, ipv6) ==
    /\ globalConfiguration # Nil
    /\ vs.listener # Nil
    /\ \E i \in DOMAIN globalConfiguration.listeners :
           LET l == globalConfiguration.listeners[i] IN
           /\ l.name = listenerName
           /\ l.protocol = HTTPProtocol
           /\ l.ssl = isSSL
           /\ port = l.port /\ ipv4 = l.ipv4 /\ ipv6 = l.ipv6

VirtualServerConfigurations ==
    {resources[k] : k \in {k \in DOMAIN resources : resources[k].kind = virtualServerKind}}
    \cup {hosts[h] : h \in {h \in DOMAIN hosts : hosts[h].kind = virtualServerKind}}

\* C22: a VirtualServerConfiguration has a non-zero HTTPPort only if a global
\* configuration is stored, the VirtualServer has a listener spec and the global
\* configuration has a listener of the name listener.http with protocol HTTP and
\* ssl false whose port and addresses are HTTPPort, HTTPIPv4 and HTTPIPv6; the same for
\* HTTPSPort, HTTPSIPv4 and HTTPSIPv6 with listener.https and ssl true.
C22_PortsResolveFromGlobalConfiguration ==
    \A vsc \in VirtualServerConfigurations :
        /\ vsc.httpPort # 0 =>
               ResolvedFrom(vsc.obj, vsc.obj.listener.http, FALSE,
                            vsc.httpPort, vsc.httpIPv4, vsc.httpIPv6)
        /\ vsc.httpsPort # 0 =>
               ResolvedFrom(vsc.obj, vsc.obj.listener.https, TRUE,
                            vsc.httpsPort, vsc.httpsIPv4, vsc.httpsIPv6)

\* One VirtualServerConfiguration has both ports resolved, and another one, whose
\* listener spec names no https listener, has the HTTPPort alone.
C22_Witness ==
    /\ \E vsc \in VirtualServerConfigurations : vsc.httpPort # 0 /\ vsc.httpsPort # 0
    /\ \E vsc \in VirtualServerConfigurations :
           vsc.obj.listener # Nil /\ vsc.httpPort # 0 /\ vsc.httpsPort = 0


NotDefinedWarning(listenerName) ==
    [msg |-> "Listener %s is not defined in GlobalConfiguration", args |-> <<listenerName>>]

SslEnabledWarning(listenerName) ==
    [msg |-> "Listener %s can't be use in listener.http context as SSL is enabled for that listener.",
     args |-> <<listenerName>>]

SslNotEnabledWarning(listenerName) ==
    [msg |-> "Listener %s can't be use in listener.https context as SSL is not enabled for that listener.",
     args |-> <<listenerName>>]

ListenerWarnings ==
    {NoGlobalConfigurationWarning}
    \cup UNION {{NotDefinedWarning(n), SslEnabledWarning(n), SslNotEnabledWarning(n)} :
                n \in {"", "http-80", "http-81", "https-443"}}

\* The listener of the stored global configuration that the name refers to (the last
\* one of the name), or Nil.
ListenerNamed(listenerName) ==
    LET ls == globalConfiguration.listeners
        S == {i \in DOMAIN ls : ls[i].name = listenerName}
    IN IF S = {} THEN Nil ELSE ls[CHOOSE i \in S : \A j \in S : j <= i]

Referenced(listenerName) == listenerName # ""

HasSsl(listenerName, ssl) ==
    ListenerNamed(listenerName) # Nil /\ ListenerNamed(listenerName).ssl = ssl

\* The warning of the first condition that holds, the conditions taken in the order:
\* no global configuration, a referenced listener is not defined, the listener.http
\* listener has ssl, the listener.https listener has no ssl.  Nil if none holds.
FirstConditionUndefinedBeforeSsl(vs) ==
    IF globalConfiguration = Nil THEN NoGlobalConfigurationWarning
    ELSE IF Referenced(vs.listener.http) /\ ListenerNamed(vs.listener.http) = Nil
    THEN NotDefinedWarning(vs.listener.http)
    ELSE IF Referenced(vs.listener.https) /\ ListenerNamed(vs.listener.https) = Nil
    THEN NotDefinedWarning(vs.listener.https)
    ELSE IF HasSsl(vs.listener.http, TRUE) THEN SslEnabledWarning(vs.listener.http)
    ELSE IF HasSsl(vs.listener.https, FALSE) THEN SslNotEnabledWarning(vs.listener.https)
    ELSE Nil

\* The same with the conditions in the order: no global configuration, the
\* listener.http listener has ssl, the listener.https listener has no ssl, listener.http
\* is not defined, listener.https is not defined.
FirstConditionSslBeforeUndefined(vs) ==
    IF globalConfiguration = Nil THEN NoGlobalConfigurationWarning
    ELSE IF HasSsl(vs.listener.http, TRUE) THEN SslEnabledWarning(vs.listener.http)
    ELSE IF HasSsl(vs.listener.https, FALSE) THEN SslNotEnabledWarning(vs.listener.https)
    ELSE IF Referenced(vs.listener.http) /\ ListenerNamed(vs.listener.http) = Nil
    THEN NotDefinedWarning(vs.listener.http)
    ELSE IF Referenced(vs.listener.https) /\ ListenerNamed(vs.listener.https) = Nil
    THEN NotDefinedWarning(vs.listener.https)
    ELSE Nil

VirtualServersWithListener ==
    {virtualServers[k] : k \in {k \in DOMAIN virtualServers : virtualServers[k].listener # Nil}}

NoListenerProblem ==
    /\ \A k \in DOMAIN hostProblems : hostProblems[k].message \notin ListenerWarnings
    /\ \A i \in DOMAIN problems : problems[i].message \notin ListenerWarnings

\* C23 as stated: for every stored VirtualServer with a listener spec and a
\* misconfigured listener, the owner of its host carries the warning of the first of
\* the conditions (no global configuration; a referenced listener is not defined; the
\* listener.http listener has ssl; the listener.https listener has no ssl), and no
\* ConfigurationProblem is emitted for it.
C23_OwnerWarnedOfFirstCondition ==
    /\ NoListenerProblem
    /\ \A vs \in VirtualServersWithListener :
           FirstConditionUndefinedBeforeSsl(vs) # Nil =>
               /\ vs.host \in DOMAIN hosts
               /\ HasWarning(hosts[vs.host], FirstConditionUndefinedBeforeSsl(vs))

\* C23 amended: the owner of the host carries the warning of the first condition in
\* the order: no global configuration, the listener.http listener has ssl, the
\* listener.https listener has no ssl, listener.http is not defined, listener.https is
\* not defined; no ConfigurationProblem is emitted for it.
C23_OwnerWarnedOfFirstConditionSslFirst ==
    /\ NoListenerProblem
    /\ \A vs \in VirtualServersWithListener :
           FirstConditionSslBeforeUndefined(vs) # Nil =>
               /\ vs.host \in DOMAIN hosts
               /\ HasWarning(hosts[vs.host], FirstConditionSslBeforeUndefined(vs))

\* A VirtualServer that does not own its host names a listener that is not defined,
\* and the owner of the host carries the warning.
C23_Witness ==
    \E vs \in VirtualServersWithListener :
        /\ globalConfiguration # Nil
        /\ FirstConditionSslBeforeUndefined(vs) # Nil
        /\ GetKeyWithKind(hosts[vs.host]) # getResourceKeyWithKind(virtualServerKind, vs)
        /\ HasWarning(hosts[vs.host], FirstConditionSslBeforeUndefined(vs))


\* The key with kind of the owner of host h, or Nil.
OwnerOf(h) == IF h \in DOMAIN hosts THEN GetKeyWithKind(hosts[h]) ELSE Nil

RejectedHostProblems ==
    {k \in DOMAIN hostProblems : hostProblems[k].reason = EventReasonRejected}

\* The stored VirtualServers and participating TransportServers whose host is owned by
\* another resource.
VirtualAndTransportServersWithoutHost ==
    {k \in UNION {VirtualServerClaimants(h) \cup TransportServerClaimants(h) : h \in StoredHosts} :
        \E h \in StoredHosts :
            k \in VirtualServerClaimants(h) \cup TransportServerClaimants(h) /\ OwnerOf(h) # k}

\* The stored Ingresses, neither minions nor converted, that own none of their hosts.
IngressesWithoutHost ==
    {k \in (UNION {IngressClaimants(h) : h \in StoredHosts}) \ ConvertedChallengeIngresses :
        \A h \in StoredHosts : k \in IngressClaimants(h) => OwnerOf(h) # k}

\* C24: hostProblems has a problem with the reason Rejected, which then has IsError
\* false, exactly for the stored VirtualServers and participating TransportServers
\* whose host is owned by another resource and for the stored Ingresses, neither minions
\* nor converted, that own none of the hosts of their rules.
C24_RejectedExactlyWithoutActiveHost ==
    /\ RejectedHostProblems = VirtualAndTransportServersWithoutHost \cup IngressesWithoutHost
    /\ \A k \in RejectedHostProblems : ~hostProblems[k].isError

\* An Ingress owns one of its two hosts and has no problem, while a VirtualServer or a
\* TransportServer of the other host has lost it and has the problem.
C24_Witness ==
    /\ \E k \in DOMAIN ingresses :
           LET kwk == getResourceKeyWithKind(ingressKind, ingresses[k]) IN
           /\ kwk \notin DOMAIN hostProblems
           /\ \E h \in StoredHosts : kwk \in IngressClaimants(h) /\ OwnerOf(h) = kwk
           /\ \E h \in StoredHosts : kwk \in IngressClaimants(h) /\ OwnerOf(h) # kwk
    /\ \E k \in RejectedHostProblems : k[1] # ingressKind


\* The IngressConfigurations of the latest rebuild: the owners and the losers.
IngressConfigurations ==
    {resources[k] : k \in {k \in DOMAIN resources : resources[k].kind = ingressKind}}
    \cup {hosts[h] : h \in {h \in DOMAIN hosts : hosts[h].kind = ingressKind}}

RuleHosts(ing) == {ing.rules[i].host : i \in DOMAIN ing.rules}

\* C25: for every IngressConfiguration and every host h of the rules of its Ingress,
\* ValidHosts[h] is true exactly if the owner of h in the hosts map is that Ingress; so
\* at most one IngressConfiguration has ValidHosts[h] true.
C25_ValidHostsAreTheOwnedHosts ==
    /\ \A ic \in IngressConfigurations :
           /\ DOMAIN ic.validHosts = RuleHosts(ic.obj)
           /\ \A h \in RuleHosts(ic.obj) :
                  ic.validHosts[h] <=> OwnerOf(h) = GetKeyWithKind(ic)
    /\ \A h \in StoredHosts :
           Cardinality({GetKeyWithKind(ic) : ic \in
                           {x \in IngressConfigurations :
                               h \in DOMAIN x.validHosts /\ x.validHosts[h]}}) <= 1

\* Two IngressConfigurations have a rule for the same host, which is valid for one and
\* not for the other, and one of them has a valid and an invalid host.
C25_Witness ==
    \E ic1, ic2 \in IngressConfigurations :
        \E h \in DOMAIN ic1.validHosts \cap DOMAIN ic2.validHosts :
            /\ ic1.validHosts[h] /\ ~ic2.validHosts[h]
            /\ \E g \in DOMAIN ic2.validHosts : ic2.validHosts[g]


ListenerProblemMessage(k) ==
    LET kwk == getResourceKeyWithKind(transportServerKind, transportServers[k]) IN
    IF kwk \in DOMAIN listenerProblems THEN listenerProblems[kwk].message ELSE Nil

ListenerDoesNotExist(ts) ==
    [msg |-> "Listener %s doesn't exist", args |-> <<ts.listener.name>>]

ListenerIsTaken(ts) ==
    [msg |-> "Listener %s with host %s is taken by another resource",
     args |-> <<ts.listener.name, IF ts.host = "" THEN "empty host" ELSE ts.host>>]

\* The global configuration has a listener with the name and the protocol of the
\* listener of the TransportServer.
ListenerResolved(ts) ==
    /\ globalConfiguration # Nil
    /\ \E i \in DOMAIN globalConfiguration.listeners :
           /\ globalConfiguration.listeners[i].name = ts.listener.name
           /\ globalConfiguration.listeners[i].protocol = ts.listener.protocol

ListenerKeyOf(ts) == <<ts.listener.name, ts.host>>

OwnsListenerKey(k) ==
    /\ ListenerKeyOf(transportServers[k]) \in DOMAIN listenerHosts
    /\ getResourceKey(listenerHosts[ListenerKeyOf(transportServers[k])].obj) = k

AnotherOwnsListenerKey(k) ==
    /\ ListenerKeyOf(transportServers[k]) \in DOMAIN listenerHosts
    /\ getResourceKey(listenerHosts[ListenerKeyOf(transportServers[k])].obj) # k

NonPassthroughTransportServers ==
    {k \in DOMAIN transportServers :
        transportServers[k].listener.protocol # TLSPassthroughListenerProtocol}

\* C26: a stored TransportServer that is not TLS Passthrough has no listener problem
\* exactly if it owns its (listener, host) key, the problem that the listener doesn't
\* exist exactly if no global configuration is stored or none of its listeners has the
\* name and the protocol, and the problem that listener and host are taken exactly if
\* its listener resolved and another TransportServer owns the key; the problems are
\* Rejected with IsError false.
C26_ListenerProblemsMatchListenerState ==
    /\ \A k \in NonPassthroughTransportServers :
           LET ts == transportServers[k] IN
           /\ ListenerProblemMessage(k) = Nil <=> OwnsListenerKey(k)
           /\ ListenerProblemMessage(k) = ListenerDoesNotExist(ts) <=> ~ListenerResolved(ts)
           /\ ListenerProblemMessage(k) = ListenerIsTaken(ts)
                  <=> (ListenerResolved(ts) /\ AnotherOwnsListenerKey(k))
    /\ \A kwk \in DOMAIN listenerProblems :
           listenerProblems[kwk].reason = EventReasonRejected /\ ~listenerProblems[kwk].isError


KindEnabled(filter, kind) ==
    \/ kind = ingressKind /\ filter.Ingresses
    \/ kind = virtualServerKind /\ filter.VirtualServers
    \/ kind = transportServerKind /\ filter.TransportServers

\* The owners the filter asks for: those of the hosts map of an enabled kind and, with
\* the TransportServers filter, those of the listenerHosts map.
OwnersOfFilter(filter) ==
    {hosts[h] : h \in {x \in DOMAIN hosts : KindEnabled(filter, hosts[x].kind)}}
    \cup (IF filter.TransportServers THEN {listenerHosts[k] : k \in DOMAIN listenerHosts} ELSE {})

ReturnsOwnersOnceInKeyOrder(filter) ==
    LET result == GetResourcesWithFilter(Store, filter) IN
    /\ {result[i] : i \in DOMAIN result} \subseteq OwnersOfFilter(filter)
    /\ {GetKeyWithKind(result[i]) : i \in DOMAIN result}
           = {GetKeyWithKind(r) : r \in OwnersOfFilter(filter)}
    /\ \A i, j \in DOMAIN result :
           i < j => TupleLess(GetKeyWithKind(result[i]), GetKeyWithKind(result[j]))

\* C27: for every filter GetResourcesWithFilter returns owners only, and the keys with
\* kind of what it returns are exactly those of the owners of the hosts map whose kind
\* the filter enables and, with the TransportServers filter, of the owners of the
\* listenerHosts map, every key with kind once and in ascending order.
C27_GetResourcesReturnsOwnersOnceInKeyOrder ==
    \A filter \in ResourceFilters : ReturnsOwnersOnceInKeyOrder(filter)

\* An Ingress that owns two hosts and a TransportServer that owns a listener are
\* returned, each once.
C27_Witness ==
    /\ \E h, g \in DOMAIN hosts : h # g /\ hosts[h] = hosts[g] /\ hosts[h].kind = ingressKind
    /\ listenerHosts # EmptyMap
    /\ Len(GetResources(Store)) = 2


\* The entries of chs with the operation op are in ascending order of the key with kind.
AscendingKeys(chs, op) ==
    \A i, j \in DOMAIN chs :
        (i < j /\ chs[i].op = op /\ chs[j].op = op)
            => ~TupleLess(GetKeyWithKind(chs[j].resource), GetKeyWithKind(chs[i].resource))

\* C28: in every change list a mutator returns, the Delete entries are in ascending
\* order of the key with kind of their resource, and so are the AddOrUpdate entries.
C28_ChangesAscendingByKeyWithinOperation ==
    AscendingKeys(changes, Delete) /\ AscendingKeys(changes, AddOrUpdate)


\* What rebuildListenerHosts derives from the contents of the store.
ListenerDerivedOf(rl) ==
    [listenerHosts |-> rl.listenerHosts, tsConfigs |-> rl.tsConfigs,
     listenerProblems |-> rl.listenerProblems]

\* C29: the owner maps, the warnings of the derived resources and the problems that
\* the two arbiters compute from the contents of the store are the same for every order
\* in which the maps of the resources are ranged over, for the listener arbiter also
\* when two contenders have the same creationTimestamp and the same UID.
C29_ArbitersIndependentOfMapOrder ==
    \A ord1, ord2 \in OrdersOf(Store) :
        /\ ListenerDerivedOf(rebuildListenerHosts(Store, ord1))
               = ListenerDerivedOf(rebuildListenerHosts(Store, ord2))
        /\ DerivedOf(rebuildHosts(Store, ord1)) = DerivedOf(rebuildHosts(Store, ord2))


\* The object stored under the namespace/name key of the object the resource r wraps, in
\* the store map of r's kind; Nil if there is none.
StoredObjectOf(r) ==
    IF r.kind = ingressKind THEN Lookup(ingresses, getResourceKey(r.obj))
    ELSE IF r.kind = virtualServerKind THEN Lookup(virtualServers, getResourceKey(r.obj))
    ELSE IF r.kind = transportServerKind THEN Lookup(transportServers, getResourceKey(r.obj))
    ELSE Nil

\* The owner r wraps the object stored under its key, that object has passed the class
\* filter and the validator, and it is neither a minion Ingress nor a VirtualServerRoute.
WrapsStoredObject(r) ==
    /\ r.kind \in {ingressKind, virtualServerKind, transportServerKind}
    /\ r.obj = StoredObjectOf(r)
    /\ r.obj.class
    /\ r.obj.err = ""
    /\ r.kind = ingressKind => ~isMinion(r.obj)

\* C30: after every mutator call, every owner in hosts and in listenerHosts wraps the
\* object currently stored under its namespace/name key, which has passed the class
\* filter and the validator; a deleted, evicted or rejected object, a minion Ingress or a
\* VirtualServerRoute is never an owner.
C30_OwnersWrapStoredObjects ==
    /\ \A h \in DOMAIN hosts : WrapsStoredObject(hosts[h])
    /\ \A k \in DOMAIN listenerHosts :
           /\ listenerHosts[k].kind = transportServerKind
           /\ WrapsStoredObject(listenerHosts[k])

\* A call has removed an Ingress from the store (a delete, or an update that the class
\* filter or the validator refused) while another resource owns a host and a
\* TransportServer owns a listener.
C30_Witness ==
    /\ lastCall.op \in {"DeleteIngress", "AddOrUpdateIngress"}
    /\ lastCall.op = "AddOrUpdateIngress" => (~lastCall.arg.class \/ lastCall.arg.err # "")
    /\ \E i \in DOMAIN changes :
           changes[i].op = Delete /\ changes[i].resource.kind = ingressKind
    /\ hosts # EmptyMap
    /\ listenerHosts # EmptyMap


\* The keys with kind of the owners of the hosts hs and of the listener keys lhs.
OwnerKeys(hs, lhs) ==
    {GetKeyWithKind(hs[h]) : h \in DOMAIN hs} \cup {GetKeyWithKind(lhs[k]) : k \in DOMAIN lhs}

\* The hosts and the listener keys that the resource with the key keyWithKind owns.
KeysOwnedBy(hs, lhs, keyWithKind) ==
    {h \in DOMAIN hs : GetKeyWithKind(hs[h]) = keyWithKind}
        \cup {k \in DOMAIN lhs : GetKeyWithKind(lhs[k]) = keyWithKind}

HasChange(chs, op, keyWithKind) ==
    \E i \in ChangesFor(chs, keyWithKind) : chs[i].op = op

\* The step returns a Delete of a resource exactly if the resource owned a host or a
\* listener key before it and owns none after it; a resource that has lost a key and
\* still owns one is returned as an AddOrUpdate.
DeleteExactlyForLostOwners ==
    /\ \A k \in OwnerKeys(hosts, listenerHosts) \cup OwnerKeys(hosts', listenerHosts')
              \cup {GetKeyWithKind(changes'[i].resource) : i \in DOMAIN changes'} :
           HasChange(changes', Delete, k)
               <=> /\ k \in OwnerKeys(hosts, listenerHosts)
                   /\ k \notin OwnerKeys(hosts', listenerHosts')
    /\ \A k \in OwnerKeys(hosts, listenerHosts) \cap OwnerKeys(hosts', listenerHosts') :
           KeysOwnedBy(hosts, listenerHosts, k) \ KeysOwnedBy(hosts', listenerHosts', k) # {}
               => HasChange(changes', AddOrUpdate, k)

\* C31: for every mutator call, the returned changes have a Delete entry of a resource
\* if and only if the resource owned at least one host or (listener, host) key before
\* the call and owns none after it; a resource that loses a key and still owns one
\* appears as AddOrUpdate only.
C31_DeleteExactlyForLostOwners ==
    [][DeleteExactlyForLostOwners]_vars


\* The derived resources that the rebuilds of the step have built for the key with kind
\* keyWithKind: the one of newResources and, for a TransportServer, the one of
\* newTSConfigs.
NewDerivedResources(keyWithKind) ==
    (IF keyWithKind \in DOMAIN resources' THEN {resources'[keyWithKind]} ELSE {})
        \cup {tsConfigs'[k] : k \in {k \in DOMAIN tsConfigs' :
                                       GetKeyWithKind(tsConfigs'[k]) = keyWithKind}}

\* Every AddOrUpdate entry of the returned changes is of an owner of the new state, and
\* every entry of a key that has a derived resource in the new state carries it.
ChangesCarryNewResources ==
    \A i \in DOMAIN changes' :
        LET k == GetKeyWithKind(changes'[i].resource) IN
        /\ changes'[i].op = AddOrUpdate => k \in OwnerKeys(hosts', listenerHosts')
        /\ NewDerivedResources(k) # {} => changes'[i].resource \in NewDerivedResources(k)

\* C32: in every returned change list each AddOrUpdate entry refers to a resource that
\* owns a host or a (listener, host) key in the new state, and every entry whose
\* resource key has a derived resource in the new state carries that derived resource,
\* with the warnings, the validHosts and the listener fields of the new state.
C32_ChangesCarryNewResources ==
    [][ChangesCarryNewResources]_vars


\* The masters that own their host.
MasterConfigurations ==
    {hosts[h] : h \in {h \in DOMAIN hosts : hosts[h].kind = ingressKind /\ hosts[h].isMaster}}

\* The keys of the stored minions of the host of master.
MinionKeysOf(master) ==
    {k \in DOMAIN ingresses :
        isMinion(ingresses[k]) /\ ingresses[k].rules[1].host = master.obj.rules[1].host}

DeclaredPaths(ing) == {ing.rules[1].paths[i].path : i \in DOMAIN ing.rules[1].paths}

HasValidPath(minion, path) ==
    path \in DOMAIN minion.validPaths /\ minion.validPaths[path]

HasChildWarning(master, ing, warning) ==
    /\ getResourceKey(ing) \in DOMAIN master.childWarnings
    /\ warning \in Range(master.childWarnings[getResourceKey(ing)])

MinionsMergedAndPathsArbitrated(master) ==
    LET keys == SortKeys(MinionKeysOf(master))
        declaring(path) ==
            {i \in DOMAIN master.minions : path \in DeclaredPaths(master.minions[i].ingress)}
    IN /\ Len(master.minions) = Len(keys)
       /\ \A i \in DOMAIN keys : master.minions[i].ingress = ingresses[keys[i]]
       /\ \A i \in DOMAIN master.minions :
              \A path \in DeclaredPaths(master.minions[i].ingress) :
                  /\ \E w \in declaring(path) :
                         /\ HasValidPath(master.minions[w], path)
                         /\ \A j \in declaring(path) \ {w} :
                                /\ ~HasValidPath(master.minions[j], path)
                                /\ OlderOrGreaterUID(master.minions[w].ingress,
                                                     master.minions[j].ingress)
                                /\ HasChildWarning(master, master.minions[j].ingress,
                                                   PathTakenWarning(path))
                  /\ \A j \in DOMAIN master.minions :
                         HasValidPath(master.minions[j], path) => j \in declaring(path)

\* C33: the Minions of every master IngressConfiguration are the stored minions of the
\* master's host in ascending order of namespace/name; for every path that one of them
\* declares exactly one minion has ValidPaths[path] true, the declaring minion with
\* the earliest creationTimestamp (on a tie the greatest UID), and every other
\* declaring minion has the child warning that the path is taken.
C33_MinionsMergedAndPathsArbitrated ==
    \A master \in MasterConfigurations : MinionsMergedAndPathsArbitrated(master)


\* Host h is owned by a master before the step.
OwnedByMaster(h) ==
    h \in DOMAIN hosts /\ hosts[h].kind = ingressKind /\ hosts[h].isMaster

\* The step adds the minion ing of a host that a master owns, or updates it, stored as a
\* minion of that host, with another generation or other annotations.
AddsOrUpdatesMinion(ing) ==
    /\ lastCall'.op = "AddOrUpdateIngress" /\ lastCall'.arg = ing
    /\ ing.class /\ ing.err = "" /\ isMinion(ing)
    /\ OwnedByMaster(ing.rules[1].host)
    /\ LET key == getResourceKey(ing) IN
       key \in DOMAIN ingresses =>
           /\ isMinion(ingresses[key])
           /\ ingresses[key].rules[1].host = ing.rules[1].host
           /\ \/ ingresses[key].generation # ing.generation
              \/ ingresses[key].annotations # ing.annotations

\* The step deletes the stored minion with the key key, whose host a master owns.
DeletesMinion(key) ==
    /\ lastCall'.op = "DeleteIngress" /\ lastCall'.arg = key
    /\ key \in DOMAIN ingresses
    /\ isMinion(ingresses[key])
    /\ OwnedByMaster(ingresses[key].rules[1].host)

\* The returned changes are one AddOrUpdate of the master that owns h, with the Minions
\* of the new state.
OnlyMasterChanged(h) ==
    /\ h \in DOMAIN hosts'
    /\ GetKeyWithKind(hosts'[h]) = GetKeyWithKind(hosts[h])
    /\ changes' = <<[op |-> AddOrUpdate, resource |-> hosts'[h], error |-> ""]>>
    /\ LET keys == SortKeys({k \in DOMAIN ingresses' :
                             isMinion(ingresses'[k]) /\ ingresses'[k].rules[1].host = h})
       IN [i \in DOMAIN hosts'[h].minions |-> hosts'[h].minions[i].ingress]
              = [i \in DOMAIN keys |-> ingresses'[keys[i]]]

MinionChangeIsMasterChange ==
    /\ \A ing \in IngressInputs :
           AddsOrUpdatesMinion(ing) =>
               /\ OnlyMasterChanged(ing.rules[1].host)
               /\ \E i \in DOMAIN hosts'[ing.rules[1].host].minions :
                      hosts'[ing.rules[1].host].minions[i].ingress = ing
    /\ \A key \in DOMAIN ingresses :
           DeletesMinion(key) =>
               /\ OnlyMasterChanged(ingresses[key].rules[1].host)
               /\ \A i \in DOMAIN hosts'[ingresses[key].rules[1].host].minions :
                      getResourceKey(hosts'[ingresses[key].rules[1].host].minions[i].ingress) # key

\* C34: when a master owns the host of a minion, adding the minion, deleting it or
\* updating it with another generation or other annotations returns exactly one change,
\* an AddOrUpdate of the master with the Minions of the new state, and no change of the
\* minion itself.
C34_MinionChangeIsMasterChange ==
    [][MinionChangeIsMasterChange]_vars

\* A minion has been updated with one more annotation next to another minion, and the
\* one change returned is the AddOrUpdate of their master.
C34_Witness ==
    /\ lastCall.op = "AddOrUpdateIngress"
    /\ isMinion(lastCall.arg)
    /\ lastCall.arg.annotations = RewritingMinionAnnotations
    /\ Len(changes) = 1
    /\ changes[1].op = AddOrUpdate
    /\ changes[1].resource.kind = ingressKind
    /\ changes[1].resource.isMaster
    /\ Len(changes[1].resource.minions) >= 2
    /\ \E i \in DOMAIN changes[1].resource.minions :
           changes[1].resource.minions[i].ingress = lastCall.arg


\* The kind of the object of an AddOrUpdate call that attaches its validation error to a
\* change, or "" for the other calls.
KindWithAttachedError(op) ==
    IF op = "AddOrUpdateIngress" THEN ingressKind
    ELSE IF op = "AddOrUpdateVirtualServer" THEN virtualServerKind
    ELSE IF op = "AddOrUpdateTransportServer" THEN transportServerKind
    ELSE ""

\* C35: in the changes a mutator returns, an entry with an Error is a Delete of the
\* object passed to the call and carries the error of its validator, at most one entry
\* has an Error, and the changes of the Delete mutators, of the GlobalConfiguration
\* mutators and of AddOrUpdateVirtualServerRoute have none.
C35_ErrorOnlyOnDeleteOfTheArgument ==
    /\ Cardinality(ChangesWithError) <= 1
    /\ \A i \in ChangesWithError :
           /\ changes[i].op = Delete
           /\ KindWithAttachedError(lastCall.op) # ""
           /\ GetKeyWithKind(changes[i].resource)
                  = getResourceKeyWithKind(KindWithAttachedError(lastCall.op), lastCall.arg)
           /\ changes[i].error = lastCall.arg.err

\* An invalid object has evicted an owner whose host another resource takes: the
\* changes are the Delete with the Error and an AddOrUpdate without.
C35_Witness ==
    /\ Len(changes) >= 2
    /\ ChangesWithError # {}
    /\ \E i \in DOMAIN changes : changes[i].op = AddOrUpdate /\ changes[i].error = ""


\* The fields of a derived resource that are resolved from the listeners of the global
\* configuration.
ListenerFieldsOf(r) ==
    IF r.kind = virtualServerKind
    THEN <<r.httpPort, r.httpsPort, r.httpIPv4, r.httpIPv6, r.httpsIPv4, r.httpsIPv6>>
    ELSE IF r.kind = transportServerKind THEN <<r.listenerPort, r.ipv4, r.ipv6>>
    ELSE <<>>

\* A resource that owns a host or a listener key before and after the step, with other
\* listener fields after it, is returned as an AddOrUpdate.
ListenerFieldChangeIsReported ==
    /\ \A h \in DOMAIN hosts \cap DOMAIN hosts' :
           (/\ GetKeyWithKind(hosts[h]) = GetKeyWithKind(hosts'[h])
            /\ ListenerFieldsOf(hosts[h]) # ListenerFieldsOf(hosts'[h]))
               => HasChange(changes', AddOrUpdate, GetKeyWithKind(hosts[h]))
    /\ \A k \in DOMAIN listenerHosts \cap DOMAIN listenerHosts' :
           (/\ GetKeyWithKind(listenerHosts[k]) = GetKeyWithKind(listenerHosts'[k])
            /\ ListenerFieldsOf(listenerHosts[k]) # ListenerFieldsOf(listenerHosts'[k]))
               => HasChange(changes', AddOrUpdate, GetKeyWithKind(listenerHosts[k]))

\* C36: whenever a call changes a listener-derived field (HTTPPort, HTTPSPort, HTTPIPv4,
\* HTTPIPv6, HTTPSIPv4, HTTPSIPv6 of a VirtualServer; ListenerPort, IPv4, IPv6 of a
\* TransportServer) of a resource that owns a host or a (listener, host) key before and
\* after the call, the returned changes have an AddOrUpdate entry of that resource.
C36_ListenerFieldChangeIsReported ==
    [][ListenerFieldChangeIsReported]_vars


\* The listener warnings whose condition holds for the listener spec of the
\* VirtualServer vs.
OwnMisconfigurations(vs) ==
    IF vs.listener = Nil THEN {}
    ELSE IF globalConfiguration = Nil THEN {NoGlobalConfigurationWarning}
    ELSE (IF HasSsl(vs.listener.http, TRUE) THEN {SslEnabledWarning(vs.listener.http)} ELSE {})
         \cup (IF HasSsl(vs.listener.https, FALSE)
               THEN {SslNotEnabledWarning(vs.listener.https)} ELSE {})
         \cup {NotDefinedWarning(n) :
                  n \in {n \in {vs.listener.http, vs.listener.https} :
                            Referenced(n) /\ ListenerNamed(n) = Nil}}

\* The derived resources of the state: the owners and the resources of the latest
\* rebuilds.
DerivedResources ==
    {hosts[h] : h \in DOMAIN hosts} \cup {resources[k] : k \in DOMAIN resources}
        \cup {listenerHosts[k] : k \in DOMAIN listenerHosts}
        \cup {tsConfigs[k] : k \in DOMAIN tsConfigs}

\* C37: a derived resource carries a listener warning only if it is a
\* VirtualServerConfiguration whose own listener spec has that misconfiguration; an
\* Ingress, a TransportServer or a VirtualServer with a correct or absent listener spec
\* carries none, also when it owns the host of a misconfigured VirtualServer.
C37_ListenerWarningOnlyOnMisconfiguredVirtualServer ==
    \A r \in DerivedResources :
        \A i \in DOMAIN r.warnings :
            r.warnings[i] \in ListenerWarnings =>
                /\ r.kind = virtualServerKind
                /\ r.warnings[i] \in OwnMisconfigurations(r.obj)


\* What a call leaves and returns, but for the stored global configuration.
OutcomeOf(r) ==
    [hosts |-> r.c.hosts, listenerHosts |-> r.c.listenerHosts,
     hostProblems |-> r.c.hostProblems, listenerProblems |-> r.c.listenerProblems,
     changes |-> r.changes, problems |-> r.problems]

\* The step is AddOrUpdateGlobalConfiguration(gc): gc is stored and read back, the error
\* of the validator is the third result and is on no change and in no problem, and
\* c.hosts, c.listenerHosts, the problems and the changes are those of the same call
\* with the same listeners and no error.
GlobalConfigurationStoredWithItsError ==
    lastCall'.op = "AddOrUpdateGlobalConfiguration" =>
        LET gc == lastCall'.arg IN
        /\ globalConfiguration' = gc
        /\ GetGlobalConfiguration([globalConfiguration |-> globalConfiguration']) = gc
        /\ \A i \in DOMAIN changes' : changes'[i].error = ""
        /\ \A i \in DOMAIN problems' : ~problems'[i].isError
        /\ \E ord \in OrdersOf(Store) :
               LET r == AddOrUpdateGlobalConfigurationCall(Store, gc, ord)
                   valid == AddOrUpdateGlobalConfigurationCall(
                                Store, [gc EXCEPT !.err = ""], ord)
               IN /\ r.err = gc.err
                  /\ OutcomeOf(r) = OutcomeOf(valid)
                  /\ OutcomeOf(r) = [hosts |-> hosts', listenerHosts |-> listenerHosts',
                                     hostProblems |-> hostProblems',
                                     listenerProblems |-> listenerProblems',
                                     changes |-> changes', problems |-> problems']

\* C38: AddOrUpdateGlobalConfiguration stores the given global configuration and
\* rebuilds listenerHosts and hosts from it whether or not the validator returned an
\* error; the error is only the third result, on no change and in no problem, and
\* GetGlobalConfiguration returns the given object afterwards.
C38_GlobalConfigurationStoredWithItsError ==
    [][GlobalConfigurationStoredWithItsError]_vars

\* A global configuration that failed validation is stored, and a VirtualServer that owns
\* its host has its HTTPS port from it.
C38_Witness ==
    /\ lastCall.op = "AddOrUpdateGlobalConfiguration"
    /\ lastCall.arg.err # ""
    /\ globalConfiguration = lastCall.arg
    /\ changes # <<>>
    /\ \E h \in DOMAIN hosts :
           /\ hosts[h].kind = virtualServerKind
           /\ hosts[h].httpsPort = 81


\* The filter with only TransportServers set.
OnlyTransportServers ==
    [Ingresses |-> FALSE, VirtualServers |-> FALSE, TransportServers |-> TRUE]

ListenerOwnersWithProtocol(protocol) ==
    {k \in DOMAIN listenerHosts : listenerHosts[k].obj.listener.protocol = protocol}

\* C39: the metrics of GetTransportServerMetrics add up to the number of resources that
\* GetResourcesWithFilter returns with only the TransportServers filter set;
\* TotalTLSPassthrough is 0 if TLS Passthrough is disabled, TotalTCP is the number of
\* listenerHosts owners with the protocol TCP and TotalUDP of those with UDP.
C39_MetricsCountTransportServerOwners ==
    LET metrics == GetTransportServerMetrics(Store) IN
    /\ metrics.TotalTLSPassthrough + metrics.TotalTCP + metrics.TotalUDP
           = Len(GetResourcesWithFilter(Store, OnlyTransportServers))
    /\ ~isTLSPassthroughEnabled => metrics.TotalTLSPassthrough = 0
    /\ metrics.TotalTCP = Cardinality(ListenerOwnersWithProtocol("TCP"))
    /\ metrics.TotalUDP = Cardinality(ListenerOwnersWithProtocol("UDP"))


\* The mutators that call rebuildHosts alone.
HostMutators ==
    {"AddOrUpdateIngress", "DeleteIngress", "AddOrUpdateVirtualServer",
     "DeleteVirtualServer", "AddOrUpdateVirtualServerRoute", "DeleteVirtualServerRoute"}

TransportServerMutators == {"AddOrUpdateTransportServer", "DeleteTransportServer"}

\* A TransportServer that buildListenerHostsAndTSConfigurations builds a
\* TransportServerConfiguration for.
IsListenerBound(ts) == ts.listener.protocol # TLSPassthroughListenerProtocol

ChangesForListenerBound(chs) ==
    {i \in DOMAIN chs : /\ chs[i].resource.kind = transportServerKind
                        /\ IsListenerBound(chs[i].resource.obj)}

ProblemsForListenerBound(probs, tss) ==
    {i \in DOMAIN probs : \E k \in DOMAIN tss : /\ tss[k] = probs[i].object
                                                /\ IsListenerBound(tss[k])}

HostMutatorsLeaveListeners ==
    lastCall'.op \in HostMutators =>
        /\ listenerHosts' = listenerHosts
        /\ listenerProblems' = listenerProblems
        /\ ChangesForListenerBound(changes') = {}
        /\ ProblemsForListenerBound(problems', transportServers') = {}

TransportServerMutatorsLeaveHosts ==
    (lastCall'.op \in TransportServerMutators /\ ~isTLSPassthroughEnabled) =>
        /\ hosts' = hosts
        /\ hostProblems' = hostProblems

\* C40: a call of an Ingress, VirtualServer or VirtualServerRoute mutator leaves
\* listenerHosts and listenerProblems as they were and returns no change and no problem
\* for a TransportServer bound to a listener; with TLS Passthrough disabled, a call of
\* a TransportServer mutator leaves hosts and hostProblems as they were.
C40_MutatorsKeepTheOtherSide ==
    [][HostMutatorsLeaveListeners /\ TransportServerMutatorsLeaveHosts]_vars

====
